---------------------------- MODULE Spec2Model ----------------------------
(***************************************************************************)
(* A model of the buffering / rendition-selection engine of                *)
(* videojs-contrib-hls 2.1.1 (src/videojs-contrib-hls.js, class            *)
(* HlsHandler).  Every handler of the class is an operator from a world    *)
(* record (the values of all variables) to the world record after the      *)
(* handler returned, so that a handler's calls to other handlers compose   *)
(* exactly as in the source.  The collaborators that the file imports      *)
(* (playlist loader, xhr, decrypter, media source) are modelled as the     *)
(* environment.                                                            *)
(*                                                                         *)
(* Media time is counted in whole seconds, wall-clock time in              *)
(* milliseconds.                                                           *)
(***************************************************************************)
EXTENDS Integers, Sequences, FiniteSets, TLC

VARIABLES
  master,       \* playlists.master.playlists: the variants, their segments and keys
  playlists,    \* the PlaylistLoader: state, media_, the switch in progress, expired_
  tech,         \* the tech: currentTime, seeking, preload, player size, buffered()
  mediaSource,  \* the MediaSource: readyState, the last endOfStream call
  sourceBuffer, \* the SourceBuffer: <<>> before it exists, else <<record>>
  hls,          \* the HlsHandler's own fields
  net,          \* requests and decrypt tasks whose callbacks have not run yet
  now,          \* Date.now(), in milliseconds
  log           \* observations of the calls the handler made (fetches, events)

vars == <<master, playlists, tech, mediaSource, sourceBuffer, hls, net, now, log>>

\* The world: the value of every variable, as the handlers read and write it.
St ==
  [master |-> master, playlists |-> playlists, tech |-> tech,
   mediaSource |-> mediaSource, sourceBuffer |-> sourceBuffer, hls |-> hls,
   net |-> net, now |-> now, log |-> log]

\* The next state is the world w.  The calls of the last action that made
\* any stay observable, and log.flip changes with every action that made one.
Becomes(world) ==
  \E w \in {world} :
    /\ master' = w.master
    /\ playlists' = w.playlists
    /\ tech' = w.tech
    /\ mediaSource' = w.mediaSource
    /\ sourceBuffer' = w.sourceBuffer
    /\ hls' = w.hls
    /\ net' = w.net
    /\ now' = w.now
    /\ log' = IF w.log.calls = <<>> THEN [w.log EXCEPT !.calls = log.calls]
              ELSE [w.log EXCEPT !.flip = ~log.flip]

-----------------------------------------------------------------------------
(* Values *)

\* null / undefined for a reference: the empty sequence; a present value x is <<x>>.
Null == <<>>
Some(x) == <<x>>
IsNull(r) == r = <<>>

\* `typeof excludeUntil === 'undefined'`, and an undefined timestamp offset
Undefined == -1
\* fillBuffer() called without a media index
NoArg == -9
\* segmentInfo.timestampOffset: null
TsNull == -2
\* Number Infinity, above every wall-clock time of the model
Infinity == 1000000000
\* window.Number.MAX_VALUE in the comparators
MAX_VALUE == 2000000000

GOAL_BUFFER_LENGTH == 30
\* bandwidthVariance = 1.2, as the ratio VarianceNum / VarianceDen
VarianceNum == 12
VarianceDen == 10
blacklistDurationMutant == 60 * 1000
blacklistDuration == 5 * 60 * 1000
bufferCheckInterval == 500
\* options.bandwidth || 4194304
DefaultBandwidth == 4194304

\* F applied to the value of e, which is computed once, as a local variable
\* of the source is.
With(e, F(_)) == CHOOSE r \in {F(x) : x \in {e}} : TRUE

Min(S) == CHOOSE x \in S : \A y \in S : x <= y
Max(S) == CHOOSE x \in S : \A y \in S : x >= y

-----------------------------------------------------------------------------
(* Sorting as Array.prototype.sort does it for these short arrays: stable.  *)
(* cmp(a, b) is the comparator's result (negative, zero, positive).         *)

\* The position of element i of seq in the sorted array, counted from 1.
SortRank(seq, cmp(_, _), i) ==
  1 + Cardinality({j \in 1..Len(seq) :
                     \/ cmp(seq[j], seq[i]) < 0
                     \/ (cmp(seq[j], seq[i]) = 0 /\ j < i)})

StableSort(seq, cmp(_, _)) ==
  [k \in 1..Len(seq) |->
     seq[CHOOSE i \in 1..Len(seq) : SortRank(seq, cmp, i) = k]]

Reverse(seq) == [k \in 1..Len(seq) |-> seq[Len(seq) + 1 - k]]

-----------------------------------------------------------------------------
(* Rendition selection *)

\* Hls.comparePlaylistBandwidth; a variant is given by its index in master.
comparePlaylistBandwidth(m, left, right) ==
  LET leftBandwidth == IF m[left].BANDWIDTH # 0 THEN m[left].BANDWIDTH ELSE MAX_VALUE
      rightBandwidth == IF m[right].BANDWIDTH # 0 THEN m[right].BANDWIDTH ELSE MAX_VALUE
  IN leftBandwidth - rightBandwidth

\* Hls.comparePlaylistResolution
comparePlaylistResolution(m, left, right) ==
  LET leftWidth == IF m[left].RESOLUTION.width # 0
                   THEN m[left].RESOLUTION.width ELSE MAX_VALUE
      rightWidth == IF m[right].RESOLUTION.width # 0
                    THEN m[right].RESOLUTION.width ELSE MAX_VALUE
  IN IF leftWidth = rightWidth /\ m[left].BANDWIDTH # 0 /\ m[right].BANDWIDTH # 0
     THEN m[left].BANDWIDTH - m[right].BANDWIDTH
     ELSE leftWidth - rightWidth

\* The filter of selectPlaylist: the variant is not excluded at time t.
NotExcludedMutant(v, t) == TRUE
NotExcludedLateMutant(v, t) ==
  IF v.excludeUntil # Undefined THEN t > v.excludeUntil ELSE TRUE
NotExcluded(v, t) ==
  IF v.excludeUntil # Undefined THEN t >= v.excludeUntil ELSE TRUE

\* effectiveBitrate < this.bandwidth, with effectiveBitrate = BANDWIDTH * 1.2
BelowBandwidthMutant(v, bandwidth) ==
  v.BANDWIDTH * VarianceNum <= bandwidth * VarianceDen
BelowBandwidth(v, bandwidth) ==
  v.BANDWIDTH * VarianceNum < bandwidth * VarianceDen

\* sortedPlaylists of selectPlaylist after the sort and the filter
sortedPlaylists(w) ==
  LET m == w.master
      cmp(a, b) == comparePlaylistBandwidth(m, a, b)
      all == StableSort([p \in 1..Len(m) |-> p], cmp)
  IN SelectSeq(all, LAMBDA p : NotExcluded(m[p], w.now))

\* bandwidthPlaylists of selectPlaylist before it is sorted: the first loop
\* walks sortedPlaylists from its end and pushes what is below the bandwidth.
bandwidthPlaylists(w) ==
  SelectSeq(Reverse(sortedPlaylists(w)),
            LAMBDA p : /\ w.master[p].BANDWIDTH # 0
                       /\ BelowBandwidth(w.master[p], w.hls.bandwidth))

\* The second loop of selectPlaylist, from index i down to 1 of the
\* resolution-sorted bp; plusOne and best are resolutionPlusOne and
\* resolutionBestVariant (0: not set).  The result is <<plusOne, best>>.
RECURSIVE ResolutionLoop(_, _, _, _, _)
ResolutionLoop(w, bp, i, plusOne, best) ==
  IF i = 0 THEN <<plusOne, best>>
  ELSE
    LET variantResolution == w.master[bp[i]].RESOLUTION
        width == w.tech.width
        height == w.tech.height
    IN IF variantResolution.width = 0 \/ variantResolution.height = 0
       THEN ResolutionLoop(w, bp, i - 1, plusOne, best)
       ELSE IF variantResolution.width = width /\ variantResolution.height = height
       THEN <<0, bp[i]>>
       ELSE IF variantResolution.width < width /\ variantResolution.height < height
       THEN <<plusOne, best>>
       ELSE IF \/ plusOne = 0
               \/ /\ variantResolution.width < w.master[plusOne].RESOLUTION.width
                  /\ variantResolution.height < w.master[plusOne].RESOLUTION.height
       THEN ResolutionLoop(w, bp, i - 1, bp[i], best)
       ELSE ResolutionLoop(w, bp, i - 1, plusOne, best)

\* selectPlaylist(): the index of the chosen variant, 0 when it returns undefined.
selectPlaylist(w) ==
  LET sorted == sortedPlaylists(w)
      pushed == bandwidthPlaylists(w)
      bandwidthBestVariant == IF Len(pushed) > 0 THEN pushed[1] ELSE 0
      cmp(a, b) == comparePlaylistResolution(w.master, a, b)
      bp == StableSort(pushed, cmp)
      res == ResolutionLoop(w, bp, Len(bp), 0, 0)
  IN IF res[1] # 0 THEN res[1]
     ELSE IF res[2] # 0 THEN res[2]
     ELSE IF bandwidthBestVariant # 0 THEN bandwidthBestVariant
     ELSE IF Len(sorted) > 0 THEN sorted[1]
     ELSE 0

-----------------------------------------------------------------------------
(* Bounds of the model *)

\* segments per media playlist
MaxSegs == 3
\* failed or timed-out responses and clock steps an execution may contain
MaxDisturbances == 2
\* seeks an execution may contain
MaxSeeks == 1
\* failed key responses an execution with a seeking viewer may contain
MaxKeyFailures == 1
\* chunk fetches an execution may issue
MaxFetches == 5

\* nominal duration of every segment, in seconds
SegDur == 10

-----------------------------------------------------------------------------
(* The playlists of the master, as the m3u8 parser and the loader hold them *)

\* A segment of a media playlist.  `end` 0: not known yet.  `key`: the segment
\* carries the playlist's key object.  `length`: the time its samples span.
\* `byterange` is the segment's byterange object, told apart by reference as
\* `===` does, and Undefined for a segment without one.
Segment(uri, encrypted, disc) ==
  [uri |-> uri, duration |-> SegDur, end |-> 0, key |-> encrypted,
   discontinuity |-> disc, length |-> SegDur, byterange |-> Undefined]

\* A variant of the master playlist.  BANDWIDTH 0 and RESOLUTION 0x0 stand for
\* an absent attribute.  `key` is the key object its encrypted segments share:
\* retries (undefined counts as 0) and whether the 16 key bytes are stored.
\* `loaded`: the media playlist was fetched, so segments and endList are known.
\* The URIs of its segments are uriBase + 1, uriBase + 2, ...
Variant(bw, width, height, excludeUntil, endList, encrypted, nseg, uriBase) ==
  [BANDWIDTH |-> bw, RESOLUTION |-> [width |-> width, height |-> height],
   excludeUntil |-> excludeUntil, endList |-> endList, loaded |-> FALSE,
   segments |-> [i \in 1..nseg |-> Segment(uriBase + i, encrypted, FALSE)],
   key |-> [retries |-> 0, bytes |-> FALSE],
   CODECS |-> <<>>]

\* keyFailed(key)
keyFailedMutant(key) == key.retries >= 3
keyFailed(key) == key.retries >= 2

\* The segment with 0-based media index i of variant p, <<>> when out of range
\* (segments[i] is undefined).
SegmentAt(w, p, i) ==
  IF i >= 0 /\ i < Len(w.master[p].segments)
  THEN Some(w.master[p].segments[i + 1]) ELSE Null

-----------------------------------------------------------------------------
(* TimeRanges: a set of <<start, end>> pairs, disjoint and not touching *)

\* The ranges of R joined with [s, e]
RECURSIVE AddRange(_, _, _)
AddRange(R, s, e) ==
  IF \E r \in R : r[1] <= e /\ s <= r[2]
  THEN LET r == CHOOSE r \in R : r[1] <= e /\ s <= r[2]
       IN AddRange(R \ {r}, Min({s, r[1]}), Max({e, r[2]}))
  ELSE R \cup {<<s, e>>}

\* The ranges of R without [0, t)
RemoveBefore(R, t) ==
  {<<Max({r[1], t}), r[2]>> : r \in {q \in R : q[2] > t}}

\* ranges.end(0): the end of the first range
End0(R) == (CHOOSE r \in R : \A q \in R : r[1] <= q[1])[2]
Start0(R) == (CHOOSE r \in R : \A q \in R : r[1] <= q[1])[1]

\* findBufferedRange_(time): the buffered ranges around `time`; empty while
\* the media source has no source buffer.  TIME_FUDGE_FACTOR is below the
\* resolution of the model's clock.
findBufferedRange_(w, time) ==
  IF IsNull(w.sourceBuffer) THEN {}
  ELSE {r \in w.tech.buffered : r[1] <= time /\ r[2] >= time}

\* findNextBufferedRange_(time)
findNextBufferedRange_(w, time) ==
  IF IsNull(w.sourceBuffer) THEN {}
  ELSE {r \in w.tech.buffered : r[1] >= time}

-----------------------------------------------------------------------------
(* Observations *)

\* The handler made the call c (an xhr, an append, an endOfStream, ...).
Call(w, c) == [w EXCEPT !.log.calls = Append(@, c)]

Called(l, op) == \E k \in 1..Len(l.calls) : l.calls[k].op = op

-----------------------------------------------------------------------------
(* The playlist loader, as far as the handler uses it *)

\* this.playlists.media(): the active media playlist, 0 when there is none
Media(w) == w.playlists.media_

\* this.playlists.media(playlist), the setter.  media(undefined) is the getter
\* and changes nothing.  A playlist that is loaded and complete becomes active
\* at once; any other playlist is requested and becomes active when its
\* request completes, the loader being in SWITCHING_MEDIA meanwhile.
PlaylistsMedia(w, p) ==
  IF p = 0 THEN w
  ELSE IF w.master[p].loaded /\ w.master[p].endList
  THEN [w EXCEPT !.playlists.state = "HAVE_METADATA",
                 !.playlists.media_ = p,
                 !.playlists.request = 0]
  ELSE IF p = w.playlists.media_ THEN w
  ELSE IF w.playlists.request = p
  THEN [w EXCEPT !.playlists.state = "SWITCHING_MEDIA"]
  ELSE [w EXCEPT !.playlists.state = "SWITCHING_MEDIA",
                 !.playlists.request = p,
                 !.playlists.startingState = w.playlists.state]

\* Hls.Playlist.duration(playlist): the end of the last segment when it is
\* known, else the sum of the segment durations; Infinity for a live playlist.
RECURSIVE SumDurations(_, _, _)
SumDurations(segs, from, to) ==
  IF from > to THEN 0 ELSE segs[from].duration + SumDurations(segs, from + 1, to)

\* Hls.Playlist.duration(playlist, mediaSequence + i): the time before the
\* segment with media index i, counted from the latest earlier segment whose
\* end is known.
DurationBefore(pl, i) ==
  LET known == {j \in 1..i : pl.segments[j].end # 0}
  IN IF known = {} THEN SumDurations(pl.segments, 1, i)
     ELSE LET j == Max(known)
          IN pl.segments[j].end + SumDurations(pl.segments, j + 1, i)

PlaylistDuration(pl) ==
  IF ~pl.endList THEN Infinity ELSE DurationBefore(pl, Len(pl.segments))

\* this.playlists.getMediaIndexForTime_(time): the first loop finds the known
\* segment ends around `time`, then the durations are walked from there.
RECURSIVE WalkForward(_, _, _, _)
WalkForward(segs, i, limit, time) ==
  IF i >= limit THEN Undefined
  ELSE IF time - segs[i + 1].duration < 0 THEN i
  ELSE WalkForward(segs, i + 1, limit, time - segs[i + 1].duration)

RECURSIVE WalkBackward(_, _, _)
WalkBackward(segs, i, time) ==
  IF i < 0 THEN (IF time = 0 THEN 0 ELSE -1)
  ELSE IF time + segs[i + 1].duration > 0 THEN i
  ELSE WalkBackward(segs, i - 1, time + segs[i + 1].duration)

getMediaIndexForTime_(w, time) ==
  LET segs == w.master[Media(w)].segments
      numSegments == Len(segs)
      lastSegment == numSegments - 1
      ends == {i \in 0..lastSegment : segs[i + 1].end # 0 /\ segs[i + 1].end > time}
      hasEnd == ends # {}
      endIndex == IF hasEnd THEN Min(ends) ELSE numSegments
      starts == {i \in 0..(endIndex - 1) : segs[i + 1].end # 0}
      hasStart == starts # {}
      startIndex == IF hasStart THEN Max(starts) + 1 ELSE 0
      knownStart == IF hasStart THEN segs[startIndex].end ELSE 0
      knownEnd == IF hasEnd THEN segs[endIndex + 1].end ELSE 0
  IN IF Media(w) = 0 THEN 0
     ELSE IF time < 0 THEN 0
     ELSE IF hasStart
     THEN LET found == WalkForward(segs, startIndex,
                                   IF hasEnd /\ endIndex # 0 THEN endIndex
                                   ELSE numSegments,
                                   time - knownStart)
          IN IF found # Undefined THEN found
             ELSE IF hasEnd
             THEN startIndex + (((time - knownStart) * (endIndex - startIndex))
                                  \div (knownEnd - knownStart))
             ELSE lastSegment
     ELSE IF hasEnd THEN WalkBackward(segs, endIndex, time - knownEnd)
     ELSE IF time - w.playlists.expired_ < 0 THEN -1
     ELSE LET found == WalkForward(segs, 0, numSegments,
                                   time - w.playlists.expired_)
          IN IF found # Undefined THEN found ELSE lastSegment

\* this.seekable(): <<start, end>>, <<>> when there is no media playlist.  The
\* window of a playlist starts at the loader's expired time.
seekable(w) ==
  IF w.playlists.state = "NONE" \/ Media(w) = 0 THEN Null
  ELSE <<w.playlists.expired_,
         w.playlists.expired_
           + DurationBefore(w.master[Media(w)], Len(w.master[Media(w)].segments))>>

-----------------------------------------------------------------------------
(* The media source and its source buffer *)

\* this.mediaSource.endOfStream(reason): an open media source becomes ended;
\* ended for the reason 'network', its media element will fire `error`.
endOfStream(w, reason) ==
  Call([w EXCEPT !.mediaSource.readyState =
                   IF @ = "open" THEN "ended" ELSE @,
                 !.tech.errorEvent =
                   IF w.mediaSource.readyState = "open" /\ reason = "network"
                   THEN TRUE ELSE @],
       [op |-> IF reason = "network" THEN "endOfStreamNetwork" ELSE "endOfStream",
        arg |-> 0])

\* this.sourceBuffer.remove(0, removeToTime): the buffer is updating until the
\* removal is done; updateend follows.
sourceBufferRemove(w, removeToTime) ==
  Call([w EXCEPT !.sourceBuffer[1].updating = TRUE,
                 !.sourceBuffer[1].op = [kind |-> "remove", start |-> 0,
                                         end |-> removeToTime]],
       [op |-> "remove", arg |-> removeToTime])

\* The time the samples of the pending segment span
PendingLength(w) ==
  LET segmentInfo == w.hls.pendingSegment_[1]
  IN w.master[segmentInfo.playlist].segments[segmentInfo.mediaIndex + 1].length

\* this.sourceBuffer.timestampOffset = t.  The source buffer ignores a value
\* that is not a number; from then on segment i lands at t plus the time
\* between the segment this offset was set for and segment i.
setTimestampOffset(w, t, mediaIndex) ==
  Call(IF t = Undefined THEN w
       ELSE [w EXCEPT !.sourceBuffer[1].timestampOffset = t,
                      !.sourceBuffer[1].shift = t - mediaIndex * PendingLength(w)],
       [op |-> "timestampOffset", arg |-> t])

\* this.sourceBuffer.appendBuffer(bytes) for the segment with media index i:
\* the buffer is updating until the bytes are in; updateend follows.  An ended
\* media source is open again after an append.
appendBuffer(w, mediaIndex) ==
  LET start == w.sourceBuffer[1].shift + mediaIndex * PendingLength(w)
  IN Call([w EXCEPT !.sourceBuffer[1].updating = TRUE,
                    !.sourceBuffer[1].op = [kind |-> "append",
                                            start |-> Max({0, start}),
                                            end |-> Max({0, start})
                                                      + PendingLength(w)],
                    !.mediaSource.readyState = IF @ = "ended" THEN "open" ELSE @],
          [op |-> "appendBuffer", arg |-> mediaIndex])

-----------------------------------------------------------------------------
(* Requests *)

\* The requests whose callback may still run.  A request that was cancelled
\* (its handle dropped and abort() called) may still deliver a late callback.
LiveRequests(n, kind) == {r \in n.requests : r.kind = kind /\ ~r.cancelled}

NewId(n) ==
  Min({k \in 1..(Cardinality(n.requests) + 1) :
         \A r \in n.requests : r.id # k})

RequestOf(n, id) == CHOOSE r \in n.requests : r.id = id

\* this.tech_.hls.xhr(options, callback): a new request; the result is its id.
xhr(w, kind, info, key) ==
  [w EXCEPT !.net.requests =
     @ \cup {[id |-> NewId(w.net), kind |-> kind, cancelled |-> FALSE,
              aborted |-> FALSE, info |-> info, key |-> key]}]

\* request.abort() after the handle's onreadystatechange was cleared
abort(w, id) ==
  [w EXCEPT !.net.requests =
     {IF r.id = id THEN [r EXCEPT !.cancelled = TRUE] ELSE r : r \in @}]

-----------------------------------------------------------------------------
(* Failover *)

\* this.playlists.media(this.selectPlaylist())
switchToSelected(w) ==
  With(selectPlaylist(w), LAMBDA p : PlaylistsMedia(w, p))

\* blacklistCurrentPlaylist_(error); errorPlaylist is error.playlist, 0 when
\* the error names no playlist.
blacklistCurrentPlaylist_(w, errorPlaylist) ==
  LET currentPlaylist == IF errorPlaylist # 0 THEN errorPlaylist ELSE Media(w)
      \* this.error = error; this.mediaSource.endOfStream('network')
      fatal(v) == endOfStream([v EXCEPT !.hls.error = TRUE], "network")
      \* select a new playlist and switch to it, if there is one
      failover(v) ==
        With(selectPlaylist(v),
             LAMBDA nextPlaylist :
               IF nextPlaylist # 0 THEN PlaylistsMedia(v, nextPlaylist)
               ELSE fatal(v))
  IN IF currentPlaylist = 0 THEN fatal(w)
     ELSE With(Call([w EXCEPT !.master[currentPlaylist].excludeUntil =
                       w.now + blacklistDuration],
                    [op |-> "blacklist", arg |-> currentPlaylist]),
               failover)

-----------------------------------------------------------------------------
(* Key fetch *)

\* fetchKey_(segment): p is the variant whose key object segment.key is, 0
\* for a segment without a key.  The response is handled by receiveKey.
fetchKey_(w, p) ==
  IF w.hls.keyXhr_ # 0 THEN w
  ELSE IF p = 0 THEN w
  ELSE IF ~w.master[p].key.bytes /\ ~keyFailed(w.master[p].key)
  THEN Call([xhr(w, "key", Null, p) EXCEPT !.hls.keyXhr_ = NewId(w.net)],
            [op |-> "xhrKey", arg |-> p])
  ELSE w

\* cancelKeyXhr()
cancelKeyXhrMutant(w) == w
cancelKeyXhr(w) ==
  IF w.hls.keyXhr_ # 0
  THEN [abort(w, w.hls.keyXhr_) EXCEPT !.hls.keyXhr_ = 0]
  ELSE w

\* cancelSegmentXhr().  A decrypter that works on the dropped segment keeps
\* running.
cancelSegmentXhr(w) ==
  LET aborted == IF w.hls.segmentXhr_ # 0
                 THEN [abort(w, w.hls.segmentXhr_) EXCEPT !.hls.segmentXhr_ = 0]
                 ELSE w
  IN [aborted EXCEPT !.hls.pendingSegment_ = Null,
                     !.net.decrypting = FALSE,
                     !.net.decrypters = IF w.net.decrypting THEN @ + 1 ELSE @]

-----------------------------------------------------------------------------
(* Chunk fetch *)

\* loadSegment's removeToTime: the start of the seekable range when there is
\* one that starts after 0 and before the playback position, and one minute
\* before the playback position otherwise.
removeToTimeOfMutant(s, currentTime) ==
  IF ~IsNull(s) /\ s[1] > 0 THEN s[1] ELSE currentTime - 60
removeToTimeOf(s, currentTime) ==
  IF ~IsNull(s) /\ s[1] > 0 /\ s[1] < currentTime
  THEN s[1] ELSE currentTime - 60

\* loadSegment(segmentInfo), up to the request; the response is handled by
\* segmentResponse.
loadSegment(w, segmentInfo) ==
  LET segment == w.master[segmentInfo.playlist].segments[segmentInfo.mediaIndex + 1]
      \* clear out the old buffer
      evict(v) ==
        LET removeToTime == removeToTimeOf(seekable(v), v.tech.currentTime)
        IN IF ~IsNull(v.sourceBuffer) /\ ~v.sourceBuffer[1].updating
              /\ removeToTime > 0
           THEN sourceBufferRemove(v, removeToTime)
           ELSE v
      \* if the segment is encrypted, request the key
      requestKey(v) ==
        IF segment.key THEN fetchKey_(v, segmentInfo.playlist) ELSE v
      \* request the next segment
      requestSegment(v) ==
        Call([xhr(v, "segment", Some(segmentInfo), 0) EXCEPT
                !.hls.segmentXhr_ = NewId(v.net),
                !.log.nfetch = IF v.log.counting THEN @ + 1 ELSE @],
             [op |-> "xhrSegment", arg |-> segmentInfo.mediaIndex])
  IN With(With(evict(w), requestKey), requestSegment)

\* The same segment as the last one loaded: playlistUriToUrl resolves both
\* URIs against the active media playlist, so the URIs decide, together with
\* the byterange objects.
SameAsLastLoadedMutant(w, segment) == FALSE
SameAsLastLoaded(w, segment) ==
  /\ ~IsNull(w.hls.lastSegmentLoaded_)
  /\ w.hls.lastSegmentLoaded_[1].uri = segment.uri
  /\ w.hls.lastSegmentLoaded_[1].byterange = segment.byterange

\* fillBuffer's walk forward from a segment that equals the last loaded one:
\* the media index it tries next
walkForwardMutant(mediaIndex) == mediaIndex + 2
walkForward(mediaIndex) == mediaIndex + 1

\* segmentInfo.timestampOffset as fillBuffer decides it
TimestampOffsetFor(w, mediaIndex, segment) ==
  LET currentBuffered == findBufferedRange_(w, w.tech.currentTime)
      outsideBufferedRanges == currentBuffered = {}
      hasBufferedContent == w.tech.buffered # {}
      pl == w.master[Media(w)]
      segmentTimestampOffset ==
        IF mediaIndex > 0
        THEN DurationBefore(pl, mediaIndex) + w.playlists.expired_
        ELSE Undefined
  IN IF w.tech.seeking /\ outsideBufferedRanges
     THEN IF \E i \in 1..Len(pl.segments) : pl.segments[i].discontinuity
          THEN segmentTimestampOffset ELSE TsNull
     ELSE IF segment.discontinuity /\ currentBuffered # {}
     THEN End0(currentBuffered)
     ELSE IF ~hasBufferedContent /\ w.tech.currentTime > 0
     THEN segmentTimestampOffset
     ELSE TsNull

\* fillBuffer's guard on the loading permission
loadingPermittedMutant(w) == w.hls.loadingState_ # "none"
loadingPermitted(w) == w.hls.loadingState_ = "segments"

\* fillBuffer's guard `if (this.segmentXhr_)`: a request is already in flight
segmentXhrInFlightMutant(w) == FALSE
segmentXhrInFlight(w) == w.hls.segmentXhr_ # 0

\* fillBuffer's test `bufferedTime >= Hls.GOAL_BUFFER_LENGTH`: enough is
\* buffered ahead of the playback position
goalReachedMutant(bufferedTime) == FALSE
goalReached(bufferedTime) == bufferedTime >= GOAL_BUFFER_LENGTH

\* fillBuffer(mediaIndex); mediaIndex is NoArg when the argument is omitted.
RECURSIVE fillBuffer(_, _)

fillBuffer(w, mediaIndex) ==
  LET currentTime == w.tech.currentTime
      currentBuffered == findBufferedRange_(w, currentTime)
      hasRange == currentBuffered # {}
      currentBufferedEnd == IF mediaIndex = NoArg /\ hasRange
                            THEN End0(currentBuffered) ELSE 0
      bufferedTime == Max({0, currentBufferedEnd - currentTime})
      \* the segment to fetch, once the media index is decided
      fetch(index, segment) ==
        IF IsNull(segment) THEN w
        ELSE IF SameAsLastLoaded(w, segment[1])
        THEN fillBuffer(w, walkForward(index))
        ELSE With([uri |-> segment[1].uri,
                   mediaIndex |-> index,
                   mediaSequence |-> 0,
                   playlist |-> Media(w),
                   currentBufferedEnd |-> currentBufferedEnd,
                   bytes |-> FALSE,
                   encryptedBytes |-> FALSE,
                   decrypter |-> FALSE,
                   buffered |-> Null,
                   timestampOffset |-> TimestampOffsetFor(w, index, segment[1])],
                  LAMBDA segmentInfo : loadSegment(w, segmentInfo))
  IN IF ~loadingPermitted(w) THEN w
     ELSE IF ~w.tech.currentSrc \/ w.playlists.state = "NONE" THEN w
     ELSE IF segmentXhrInFlight(w) THEN w
     ELSE IF ~IsNull(w.hls.pendingSegment_) THEN w
     ELSE IF w.playlists.state = "HAVE_NOTHING" \/ Media(w) = 0 THEN w
     ELSE IF w.playlists.state = "SWITCHING_MEDIA" THEN w
     ELSE IF mediaIndex = NoArg /\ hasRange
             /\ goalReached(bufferedTime) THEN w
     ELSE With(IF mediaIndex # NoArg THEN mediaIndex
               ELSE IF hasRange THEN getMediaIndexForTime_(w, currentBufferedEnd)
               ELSE getMediaIndexForTime_(w, currentTime),
               LAMBDA index :
                 With(SegmentAt(w, Media(w), index),
                      LAMBDA segment : fetch(index, segment)))

-----------------------------------------------------------------------------
(* Append *)

\* drainBuffer's test `segment.key && !bytes`: the segment is encrypted and
\* its plaintext is not there yet
awaitsPlaintextMutant(segment, bytes) == FALSE
awaitsPlaintext(segment, bytes) == segment.key /\ ~bytes

\* drainBuffer()
drainBuffer(w) ==
  IF IsNull(w.hls.pendingSegment_) \/ IsNull(w.sourceBuffer) THEN w
  ELSE IF ~IsNull(w.hls.pendingSegment_[1].buffered) THEN w
  ELSE IF w.sourceBuffer[1].updating THEN w
  ELSE
    LET segmentInfo == w.hls.pendingSegment_[1]
        mediaIndex == segmentInfo.mediaIndex
        playlist == segmentInfo.playlist
        bytes == segmentInfo.bytes
        segment == w.master[playlist].segments[mediaIndex + 1]
        key == w.master[playlist].key
        \* this.sourceBuffer.timestampOffset = segmentInfo.timestampOffset
        offset(v) == IF segmentInfo.timestampOffset # TsNull
                     THEN setTimestampOffset(v, segmentInfo.timestampOffset,
                                             mediaIndex)
                     ELSE v
        append(v) == appendBuffer(v, mediaIndex)
    IN IF awaitsPlaintext(segment, bytes)
       THEN IF keyFailed(key)
            THEN With(Call(w, [op |-> "keyFailed", arg |-> playlist]),
                      LAMBDA v : blacklistCurrentPlaylist_(v, 0))
            ELSE IF ~key.bytes THEN w
            ELSE IF segmentInfo.decrypter THEN w
            ELSE Call([w EXCEPT !.hls.pendingSegment_[1].decrypter = TRUE,
                                !.net.decrypting = TRUE],
                      [op |-> "decrypt", arg |-> mediaIndex])
       ELSE With(With([w EXCEPT !.hls.pendingSegment_[1].buffered =
                                  Some(w.tech.buffered)],
                      offset),
                 append)

-----------------------------------------------------------------------------
(* Timeline reconciliation *)

\* Hls.findSoleUncommonTimeRangesEnd_(original, update); 0 stands for null,
\* the end of a range being positive.
overlapsCurrentEndMutant(span, end) == span[2] = end
overlapsCurrentEndFromStartMutant(span, end) == span[1] <= end
overlapsCurrentEnd(span, end) == span[1] <= end /\ span[2] >= end

findSoleUncommonTimeRangesEnd_(original, update) ==
  LET result == {r \in update :
                   ~\E span \in original : overlapsCurrentEnd(span, r[2])}
  IN IF Cardinality(result) # 1 THEN 0
     ELSE (CHOOSE r \in result : TRUE)[2]

\* updateSegmentMetadata(playlist, segmentIndex, segmentEnd) on master
updateSegmentMetadataMutant(w, playlist, segmentIndex, segmentEnd) ==
  IF playlist = 0 THEN w
  ELSE IF segmentEnd # 0 /\ ~IsNull(SegmentAt(w, playlist, segmentIndex))
  THEN [w EXCEPT
          !.master[playlist].segments[segmentIndex + 1].end = segmentEnd,
          !.master[playlist].segments[segmentIndex + 1].duration =
            IF segmentIndex = 0 THEN segmentEnd
            ELSE segmentEnd - w.master[playlist].segments[segmentIndex].end]
  ELSE w
updateSegmentMetadata(w, playlist, segmentIndex, segmentEnd) ==
  IF playlist = 0 THEN w
  ELSE IF segmentEnd # 0 /\ ~IsNull(SegmentAt(w, playlist, segmentIndex))
  THEN LET previousEnd == IF segmentIndex = 0 THEN 0
                          ELSE w.master[playlist].segments[segmentIndex].end
       IN [w EXCEPT
             !.master[playlist].segments[segmentIndex + 1].end = segmentEnd,
             !.master[playlist].segments[segmentIndex + 1].duration =
               IF segmentIndex = 0 THEN segmentEnd
               ELSE IF previousEnd # 0 THEN segmentEnd - previousEnd
               ELSE @]
  ELSE w

\* detectEndOfStream(playlist, mediaSource, segmentIndex, currentBuffered)
detectEndOfStreamLastOnlyMutant(w, playlist, segmentIndex, currentBuffered) ==
  /\ playlist # 0
  /\ w.master[playlist].endList
  /\ w.mediaSource.readyState = "open"
  /\ segmentIndex = Len(w.master[playlist].segments) - 1
detectEndOfStream(w, playlist, segmentIndex, currentBuffered) ==
  IF playlist = 0 THEN FALSE
  ELSE
    LET segments == w.master[playlist].segments
        appendedLastSegment == segmentIndex = Len(segments) - 1
        bufferedToEnd == /\ currentBuffered # {}
                         /\ segments[Len(segments)].end # 0
                         /\ segments[Len(segments)].end <= End0(currentBuffered)
    IN /\ w.master[playlist].endList
       /\ w.mediaSource.readyState = "open"
       /\ (appendedLastSegment \/ bufferedToEnd)

\* updateDuration(playlist)
updateDuration(w, playlist) ==
  LET oldDuration == w.mediaSource.duration
      fromPlaylist == PlaylistDuration(w.master[playlist])
      newDuration == IF w.tech.buffered # {}
                     THEN Max({fromPlaylist} \cup {r[2] : r \in w.tech.buffered})
                     ELSE fromPlaylist
  IN IF oldDuration # newDuration /\ w.mediaSource.readyState = "open"
        /\ (IsNull(w.sourceBuffer) \/ ~w.sourceBuffer[1].updating)
     THEN [w EXCEPT !.mediaSource.duration = newDuration]
     ELSE w

\* this.tech_.setCurrentTime(t): the tech seeks and fires `seeking`.
techSetCurrentTime(w, t) ==
  [w EXCEPT !.tech.currentTime = t, !.tech.seeking = TRUE,
            !.tech.seekingEvent = TRUE]

\* The handler's test of whether the append changed the timeline:
\* timelineUpdate !== null ||
\* segmentInfo.buffered.length !== this.tech_.buffered().length
timelineChangedMutant(timelineUpdate, snapshot, buffered) == TRUE
timelineChanged(timelineUpdate, snapshot, buffered) ==
  \/ timelineUpdate # 0
  \/ Cardinality(snapshot) # Cardinality(buffered)

\* The handler's test of whether the appended chunk belongs to another
\* rendition than the active one:
\* segmentInfo.playlist.uri !== this.playlists.media().uri
switchedRenditionsMutant(w, playlist) == FALSE
switchedRenditions(w, playlist) == playlist # Media(w)

\* updateEndHandler_()
updateEndHandlerEagerMutant_(w) ==
  IF IsNull(w.hls.pendingSegment_) THEN w
  ELSE fillBuffer([w EXCEPT !.hls.pendingSegment_ = Null], NoArg)
updateEndHandler_(w) ==
  IF IsNull(w.hls.pendingSegment_) THEN w
  ELSE IF IsNull(w.hls.pendingSegment_[1].buffered) THEN w
  ELSE
    LET segmentInfo == w.hls.pendingSegment_[1]
        playlist == segmentInfo.playlist
        currentMediaIndex == segmentInfo.mediaIndex
        \* signal the end of the stream, or fetch more segments
        proceed(v, isEndOfStream, timelineUpdate) ==
          IF isEndOfStream THEN endOfStream(v, "")
          ELSE IF timelineChanged(timelineUpdate, segmentInfo.buffered[1],
                                  v.tech.buffered)
          THEN With(updateDuration(v, playlist),
                    LAMBDA u : fillBuffer(u, NoArg))
          ELSE fillBuffer(v, currentMediaIndex + 1)
        \* update segment meta-data based on the timeline
        reconcile(v, isEndOfStream) ==
          With(findSoleUncommonTimeRangesEnd_(segmentInfo.buffered[1],
                                              v.tech.buffered),
               LAMBDA timelineUpdate :
                 With(updateSegmentMetadata(v, playlist, currentMediaIndex,
                                            timelineUpdate),
                      LAMBDA u : proceed(u, isEndOfStream, timelineUpdate)))
        \* a seek that ended before the seekable range is retried
        seekAgain(v) ==
          LET s == seekable(v)
              next == findNextBufferedRange_(v, v.tech.currentTime)
          IN IF /\ v.tech.seeking
                /\ findBufferedRange_(v, v.tech.currentTime) = {}
                /\ ~IsNull(s) /\ v.tech.currentTime < s[1]
                /\ next # {}
             THEN techSetCurrentTime(v, Start0(next))
             ELSE v
        \* after this.pendingSegment_ = null
        cleared(v) ==
          With(detectEndOfStream(v, playlist, currentMediaIndex,
                                 findBufferedRange_(v, v.tech.currentTime)),
               LAMBDA isEndOfStream :
                 IF switchedRenditions(v, playlist)
                 THEN IF isEndOfStream THEN endOfStream(v, "")
                      ELSE fillBuffer(v, NoArg)
                 ELSE With(seekAgain(v),
                           LAMBDA u : reconcile(u, isEndOfStream)))
    IN With([w EXCEPT !.hls.pendingSegment_ = Null], cleared)

-----------------------------------------------------------------------------
(* The periodic check *)

\* window.clearTimeout(this.checkBufferTimeout_); this.checkBufferTimeout_ = null
clearCheckBufferTimeout(w) ==
  IF w.hls.checkBufferTimeout_ # 0
  THEN [w EXCEPT !.net.timers = @ \ {w.hls.checkBufferTimeout_},
                 !.hls.checkBufferTimeout_ = 0]
  ELSE w

\* this.checkBufferTimeout_ = window.setTimeout(..., bufferCheckInterval)
setCheckBufferTimeout(w) ==
  LET id == Min({k \in 1..(Cardinality(w.net.timers) + 1) : k \notin w.net.timers})
  IN [w EXCEPT !.net.timers = @ \cup {id}, !.hls.checkBufferTimeout_ = id]

\* checkBuffer_()
checkBuffer_(w) ==
  With(With(With(clearCheckBufferTimeout(w),
                 LAMBDA v : fillBuffer(v, NoArg)),
            drainBuffer),
       setCheckBufferTimeout)

\* stopCheckingBuffer_()
stopCheckingBuffer_(w) == clearCheckBufferTimeout(w)

\* this.sourceBuffer.abort(): the append or removal under way is given up;
\* its `updateend` is still to come.
sourceBufferAbort(w) ==
  IF w.sourceBuffer[1].updating
  THEN [w EXCEPT !.sourceBuffer[1].op = [kind |-> "none", start |-> 0, end |-> 0]]
  ELSE w

\* resetSrc_()
resetSrc_(w) ==
  With(cancelKeyXhr(cancelSegmentXhr(w)),
       LAMBDA v : IF ~IsNull(v.sourceBuffer) /\ v.mediaSource.readyState = "open"
                  THEN sourceBufferAbort(v) ELSE v)

\* dispose().  this.playlists.dispose() gives up the loader's request;
\* super.dispose() detaches the handlers of the tech's events.
dispose(w) ==
  With(With(stopCheckingBuffer_(w),
            LAMBDA v : [v EXCEPT !.playlists.request = 0]),
       LAMBDA v : [resetSrc_(v) EXCEPT !.hls.disposed = TRUE])

-----------------------------------------------------------------------------
(* Responses *)

\* setBandwidth(localXhr)
setBandwidthMutant(w, bandwidth) ==
  [w EXCEPT !.hls.bandwidth = (@ + bandwidth) \div 2]
setBandwidth(w, bandwidth) == [w EXCEPT !.hls.bandwidth = bandwidth]

\* The callback's test `if (request.timedout)`, which precedes the test of
\* the error
requestTimedOutMutant(response) == response.timedout /\ ~response.error
requestTimedOut(response) == response.timedout

\* The callback of loadSegment's request.  request is the record of the
\* request that answers, response what it delivers: timedout, error, aborted,
\* whether there is a response body, and the measured bandwidth.
segmentResponse(w, request, response) ==
  IF w.hls.segmentXhr_ = 0 \/ request.id # w.hls.segmentXhr_ THEN w
  ELSE
    LET segmentInfo == request.info[1]
        segment == w.master[segmentInfo.playlist].segments[segmentInfo.mediaIndex + 1]
        \* this.segmentXhr_ = null
        settled == [w EXCEPT !.hls.segmentXhr_ = 0]
        \* this.lastSegmentLoaded_ = segment; this.setBandwidth(request)
        measured(v) ==
          setBandwidth([v EXCEPT !.hls.lastSegmentLoaded_ =
                          Some([uri |-> segment.uri,
                                byterange |-> segment.byterange,
                                playlist |-> segmentInfo.playlist,
                                mediaIndex |-> segmentInfo.mediaIndex])],
                       response.bandwidth)
        \* the bytes are recorded and the segment becomes the pending one
        pending(v) ==
          Call([v EXCEPT !.hls.pendingSegment_ =
                  Some(IF segment.key
                       THEN [segmentInfo EXCEPT !.encryptedBytes = TRUE]
                       ELSE [segmentInfo EXCEPT !.bytes = TRUE])],
               [op |-> "loaded", arg |-> segmentInfo.mediaIndex])
    IN IF requestTimedOut(response)
       THEN With(Call([settled EXCEPT !.hls.bandwidth = 1],
                      [op |-> "timedout",
                       arg |-> IF response.error THEN 1 ELSE 0]),
                 switchToSelected)
       ELSE IF ~response.aborted /\ response.error
       THEN With(Call(settled, [op |-> "segmentError",
                                arg |-> segmentInfo.playlist]),
                 LAMBDA v : blacklistCurrentPlaylist_(v, 0))
       ELSE IF ~response.body THEN settled
       ELSE With(With(With(With(settled, measured), pending), drainBuffer),
                 switchToSelected)

\* receiveKey(key), the callback of fetchKey_'s request.  ok: the response
\* came without error and is 16 bytes long.
receiveKey(w, request, ok) ==
  LET p == request.key
      \* this.keyXhr_ = null
      settled == [w EXCEPT !.hls.keyXhr_ = 0]
  IN IF ~ok
     THEN With([settled EXCEPT !.master[p].key.retries = @ + 1],
               LAMBDA v : IF ~request.aborted THEN fetchKey_(v, p) ELSE v)
     ELSE With(Call([settled EXCEPT !.master[p].key.bytes = TRUE],
                    [op |-> "keyStored", arg |-> p]),
               checkBuffer_)

-----------------------------------------------------------------------------
(* Seeking and playing *)

\* setCurrentTime's test `this.pendingSegment_ && this.pendingSegment_.buffered`:
\* "if we are in the middle of appending a segment, let it finish up"
middleOfAppendingMutant(w) == FALSE
middleOfAppending(w) ==
  /\ ~IsNull(w.hls.pendingSegment_)
  /\ ~IsNull(w.hls.pendingSegment_[1].buffered)

\* setCurrentTime(currentTime), the handler of the tech's `seeking`
setCurrentTime(w, currentTime) ==
  LET buffered == findBufferedRange_(w, w.tech.currentTime)
      \* abort outstanding key requests, if necessary
      abortKey(v) ==
        IF v.hls.keyXhr_ # 0
        THEN cancelKeyXhr(
               [v EXCEPT !.net.requests =
                  {IF r.id = v.hls.keyXhr_
                   THEN [r EXCEPT !.aborted = TRUE] ELSE r : r \in @}])
        ELSE v
      \* begin filling the buffer at the new position
      refill(v) ==
        With(getMediaIndexForTime_(v, currentTime),
             LAMBDA mediaIndex : fillBuffer(v, mediaIndex))
  IN IF w.playlists.state = "NONE" \/ Media(w) = 0 THEN w
     ELSE IF buffered # {} THEN w
     ELSE IF middleOfAppending(w) THEN w
     ELSE With(With(With(Call([w EXCEPT !.hls.lastSegmentLoaded_ = Null],
                              [op |-> "cancel", arg |-> currentTime]),
                         cancelSegmentXhr),
                    abortKey),
               refill)

\* this.duration()
duration(w) ==
  IF w.playlists.state = "NONE" THEN 0 ELSE w.mediaSource.duration

\* setupFirstPlay(): a live stream that starts playing seeks to the live point.
setupFirstPlay(w) ==
  IF /\ duration(w) = Infinity
     /\ ~w.tech.played /\ ~w.tech.paused
     /\ ~IsNull(w.sourceBuffer)
     /\ Media(w) # 0
  THEN LET s == seekable(w)
       IN IF ~IsNull(s) THEN techSetCurrentTime(w, s[2]) ELSE w
  ELSE w

\* this.tech_.ended()
ended(w) ==
  /\ w.mediaSource.readyState = "ended"
  /\ w.tech.buffered # {}
  /\ w.tech.currentTime >= Max({r[2] : r \in w.tech.buffered})

\* play()
play(w) ==
  LET \* if (this.tech_.ended()) this.tech_.setCurrentTime(0)
      restart(v) == IF ended(v) THEN techSetCurrentTime(v, 0) ELSE v
      \* the first play, or a play after falling out of the live window
      resume(v) ==
        LET s == seekable(v)
        IN IF ~v.tech.played THEN setupFirstPlay(v)
           ELSE IF duration(v) = Infinity /\ ~IsNull(s)
                   /\ v.tech.currentTime < s[1]
           THEN techSetCurrentTime(v, s[1])
           ELSE v
  IN With(With([w EXCEPT !.hls.loadingState_ = "segments"], restart), resume)

-----------------------------------------------------------------------------
(* Set-up *)

\* parseCodecs(codecs).  A CODECS attribute is the sequence of its
\* comma-separated entries, each with the codec it names and the last field
\* of its profile; <<>> stands for no attribute.  "null": no match.
parseCodecs(codecs) ==
  LET video == {k \in 1..Len(codecs) : codecs[k].codec = "avc1"}
      audio == {k \in 1..Len(codecs) : codecs[k].codec = "mp4a"}
  IN [codecCount |-> IF Len(codecs) = 0 THEN 2 ELSE Len(codecs),
      videoCodec |-> IF video # {} THEN "avc1" ELSE "null",
      audioProfile |-> IF audio # {} THEN codecs[Min(audio)].profile
                       ELSE "null"]

\* The codecs excludeIncompatibleVariants_ assumes for a playlist
CodecsOf(playlist) ==
  IF Len(playlist.CODECS) > 0 THEN parseCodecs(playlist.CODECS)
  ELSE [codecCount |-> 2, videoCodec |-> "null", audioProfile |-> "null"]

\* The three tests of excludeIncompatibleVariants_ for one variant
incompatibleMutant(variantCodecs, codecs) ==
  variantCodecs.codecCount # codecs.codecCount
incompatible(variantCodecs, codecs) ==
  \/ variantCodecs.codecCount # codecs.codecCount
  \/ variantCodecs.videoCodec # codecs.videoCodec
  \/ (variantCodecs.audioProfile = "5" /\ codecs.audioProfile # "5")
  \/ (codecs.audioProfile = "5" /\ variantCodecs.audioProfile # "5")

\* excludeIncompatibleVariants_(media)
excludeIncompatibleVariants_(w, media) ==
  [w EXCEPT !.master =
     [p \in 1..Len(w.master) |->
        IF incompatible(CodecsOf(w.master[p]), CodecsOf(w.master[media]))
        THEN [w.master[p] EXCEPT !.excludeUntil = Infinity]
        ELSE w.master[p]]]

\* setupSourceBuffer_(); `codecs` is what the mime type of the source buffer
\* names.
setupSourceBuffer_(w) ==
  IF Media(w) = 0 \/ w.mediaSource.readyState # "open" THEN w
  ELSE excludeIncompatibleVariants_(
         [w EXCEPT !.sourceBuffer =
            Some([updating |-> FALSE, timestampOffset |-> 0, shift |-> 0,
                  op |-> [kind |-> "none", start |-> 0, end |-> 0],
                  codecs |-> w.master[Media(w)].CODECS])],
         Media(w))

\* handleSourceOpen()
handleSourceOpen(w) ==
  With(IF IsNull(w.sourceBuffer) THEN setupSourceBuffer_(w) ELSE w,
       LAMBDA v : IF v.tech.autoplay THEN play(v) ELSE v)

\* The handler of the loader's `loadedplaylist`
onLoadedPlaylist(w) ==
  IF Media(w) = 0 THEN switchToSelected(w)
  ELSE updateDuration(w, Media(w))

\* The preload setting lets loadedmetadata start the download of segments.
preloadPermitsMutant(preload) == preload # "none"
preloadPermits(preload) == preload # "metadata" /\ preload # "none"

\* The handler of the loader's `loadedmetadata`
onLoadedMetadata(w) ==
  LET oldMediaPlaylist == w.master[Media(w)]
      segments == IF /\ oldMediaPlaylist.endList
                     /\ preloadPermits(w.tech.preload)
                  THEN [w EXCEPT !.hls.loadingState_ = "segments"]
                  ELSE w
  IN With(With(With(segments, setupSourceBuffer_), setupFirstPlay),
          LAMBDA v : fillBuffer(v, NoArg))

\* The handler of the loader's `error`
onPlaylistError(w, errorPlaylist) ==
  With(Call(w, [op |-> "playlistError", arg |-> errorPlaylist]),
       LAMBDA v : blacklistCurrentPlaylist_(v, errorPlaylist))

-----------------------------------------------------------------------------
(* The initial state: a handler was constructed for a master playlist of two *)
(* variants; src() has not run yet.                                          *)

\* The master playlists of the model: a 500 and a 2000 bit/s variant, each of
\* MaxSegs segments, complete, with the keys as `encrypted` says.
MasterOf(encrypted) ==
  <<Variant(500, 0, 0, Undefined, TRUE, encrypted[1], MaxSegs, 10),
    Variant(2000, 0, 0, Undefined, TRUE, encrypted[2], MaxSegs, 20)>>

Encryptions == {<<FALSE, FALSE>>, <<TRUE, FALSE>>, <<TRUE, TRUE>>}

Preloads == {"auto"}

\* The constructor: the fields, loadingState_ from preload, and the first
\* checkBuffer_(), which arms the timer.  `counting`: log.nfetch counts the
\* chunk fetches of the execution.
Constructed(m, preload, counting) ==
  With(
    [master |-> m,
     playlists |-> [state |-> "NONE", media_ |-> 0, request |-> 0,
                    startingState |-> "NONE", expired_ |-> 0],
     tech |-> [currentTime |-> 0, seeking |-> FALSE, seekingEvent |-> FALSE,
               errorEvent |-> FALSE,
               preload |-> preload, autoplay |-> FALSE, paused |-> TRUE,
               played |-> FALSE, width |-> 0, height |-> 0, buffered |-> {},
               currentSrc |-> FALSE],
     mediaSource |-> [readyState |-> "closed", duration |-> 0],
     sourceBuffer |-> Null,
     hls |-> [loadingState_ |-> IF preload # "none" THEN "meta" ELSE "none",
              bandwidth |-> DefaultBandwidth,
              pendingSegment_ |-> Null,
              segmentXhr_ |-> 0,
              keyXhr_ |-> 0,
              lastSegmentLoaded_ |-> Null,
              checkBufferTimeout_ |-> 0,
              error |-> FALSE,
              disposed |-> FALSE],
     net |-> [requests |-> {}, timers |-> {}, decrypting |-> FALSE,
              decrypters |-> 0],
     now |-> 0,
     log |-> [calls |-> <<>>, flip |-> FALSE, counting |-> counting,
              nfetch |-> 0,
              budget |-> [failures |-> 0, keyFailures |-> 0, seeks |-> 0]]],
    checkBuffer_)

\* The initial states for the given masters and preload settings.  `budget`:
\* how many failed responses and clock steps, failed key responses and seeks
\* the execution may contain.
InitWith(masters, preloads, counting, budget) ==
  \E m \in masters, preload \in preloads :
    LET w == Constructed(m, preload, counting)
    IN /\ master = w.master
       /\ playlists = w.playlists
       /\ tech = w.tech
       /\ mediaSource = w.mediaSource
       /\ sourceBuffer = w.sourceBuffer
       /\ hls = w.hls
       /\ net = w.net
       /\ now = w.now
       /\ log = [w.log EXCEPT !.budget = budget]

\* a key fails for good after keyFailed's two retries
Init ==
  InitWith({MasterOf(enc) : enc \in Encryptions}, Preloads, FALSE,
           [failures |-> MaxDisturbances, keyFailures |-> 4, seeks |-> 0])

-----------------------------------------------------------------------------
(* Actions: one per event the handler reacts to, and the environment's own *)

\* steps of the wall clock, in milliseconds
ClockStep == blacklistDuration \div 2
\* positions a viewer seeks to, in seconds
SeekTargets == {0, 2 * SegDur + 5}
\* bandwidths a chunk fetch may measure
Measured == {1000, DefaultBandwidth}

\* The world at the start of the action `name`: the calls are observed anew.
Begin(name) == [St EXCEPT !.log.calls = <<>>]

\* The world with one more disturbance counted
Disturbed(w) == [w EXCEPT !.log.budget.failures = @ - 1]

Within == log.nfetch < MaxFetches
MayDisturb == log.budget.failures > 0

\* What a chunk request may deliver
SegmentSuccess == {[timedout |-> FALSE, error |-> FALSE, aborted |-> FALSE,
                    body |-> TRUE, bandwidth |-> b] : b \in Measured}
SegmentFailure ==
  {[timedout |-> t, error |-> e, aborted |-> FALSE, body |-> FALSE,
    bandwidth |-> 0] : t \in BOOLEAN, e \in BOOLEAN}
SegmentAborted == {[timedout |-> FALSE, error |-> TRUE, aborted |-> TRUE,
                    body |-> FALSE, bandwidth |-> 0]}

\* src(src), the part that precedes the loader's events
Src ==
  /\ Within
  /\ playlists.state = "NONE"
  /\ Becomes([Begin("src") EXCEPT !.tech.currentSrc = TRUE,
                                  !.playlists.state = "HAVE_NOTHING"])

\* The loader received the master playlist and fires `loadedplaylist`.
MasterLoaded ==
  /\ Within
  /\ playlists.state = "HAVE_NOTHING"
  /\ Becomes(With([Begin("masterLoaded") EXCEPT
                      !.playlists.state = "HAVE_MASTER"],
                  onLoadedPlaylist))

\* The loader received the media playlist it requested and fires
\* `loadedplaylist`, then `loadedmetadata` when it is the first one.
PlaylistLoaded ==
  /\ Within
  /\ playlists.request # 0
  /\ Becomes(With(With([Begin("playlistLoaded") EXCEPT
                           !.master[playlists.request].loaded = TRUE,
                           !.playlists.media_ = playlists.request,
                           !.playlists.state = "HAVE_METADATA",
                           !.playlists.request = 0],
                       onLoadedPlaylist),
                  LAMBDA w : IF playlists.startingState = "HAVE_MASTER"
                             THEN onLoadedMetadata(w) ELSE w))

\* The loader's request of a media playlist failed; it fires `error`.
PlaylistError ==
  /\ Within /\ MayDisturb
  /\ playlists.request # 0
  /\ Becomes(With(Disturbed([Begin("playlistError") EXCEPT
                                !.playlists.state = playlists.startingState,
                                !.playlists.request = 0]),
                  LAMBDA w : onPlaylistError(w, playlists.request)))

\* The media source opens.
SourceOpen ==
  /\ Within
  /\ tech.currentSrc
  /\ mediaSource.readyState = "closed"
  /\ Becomes(With([Begin("sourceopen") EXCEPT
                      !.mediaSource.readyState = "open"],
                  handleSourceOpen))

\* The tech fires `play`.
Play ==
  /\ Within
  /\ tech.paused
  /\ Becomes(With([Begin("play") EXCEPT !.tech.paused = FALSE], play))

\* The buffer-check timer fires.
Tick ==
  /\ Within
  /\ \E id \in net.timers :
       Becomes(With([Begin("tick") EXCEPT !.net.timers = @ \ {id}],
                    checkBuffer_))

\* The outstanding chunk request r answers with `response`.
SegmentResponds(r, response) ==
  /\ Within
  /\ r \in LiveRequests(net, "segment")
  /\ response \in SegmentFailure => MayDisturb
  /\ Becomes(With([Begin("segmentResponse") EXCEPT
                      !.net.requests = @ \ {r},
                      !.log.budget.failures =
                        IF response \in SegmentFailure THEN @ - 1 ELSE @],
                  LAMBDA w : segmentResponse(w, r, response)))

\* The outstanding chunk request answers.
SegmentResponse ==
  \E r \in LiveRequests(net, "segment") :
    \E response \in SegmentSuccess \cup SegmentFailure :
      SegmentResponds(r, response)

\* A cancelled chunk request answers after all.
LateSegmentResponse ==
  /\ Within
  /\ \E r \in {q \in net.requests : q.kind = "segment" /\ q.cancelled} :
       \E response \in SegmentSuccess \cup SegmentFailure \cup SegmentAborted :
         Becomes(With([Begin("lateSegmentResponse") EXCEPT
                         !.net.requests = @ \ {r}],
                      LAMBDA w : segmentResponse(w, r, response)))

\* The outstanding key request answers.
KeyResponse ==
  /\ Within
  /\ \E r \in LiveRequests(net, "key") :
       \E ok \in BOOLEAN :
         /\ ~ok => log.budget.keyFailures > 0
         /\ Becomes(With([Begin("keyResponse") EXCEPT
                            !.net.requests = @ \ {r},
                            !.log.budget.keyFailures = IF ok THEN @ ELSE @ - 1],
                         LAMBDA w : receiveKey(w, r, ok)))

\* A cancelled key request answers after all.
LateKeyResponse ==
  /\ Within
  /\ \E r \in {q \in net.requests : q.kind = "key" /\ q.cancelled} :
       \E ok \in BOOLEAN :
         Becomes(With([Begin("lateKeyResponse") EXCEPT
                         !.net.requests = @ \ {r}],
                      LAMBDA w : receiveKey(w, r, ok)))

\* The decrypter of the pending segment delivers its bytes.
DecryptDone ==
  /\ Within
  /\ net.decrypting
  /\ Becomes([Begin("decryptDone") EXCEPT
                !.net.decrypting = FALSE,
                !.hls.pendingSegment_[1].bytes = TRUE])

\* A decrypter of a dropped segment delivers its bytes.
OrphanDecryptDone ==
  /\ Within
  /\ net.decrypters > 0
  /\ Becomes([Begin("orphanDecryptDone") EXCEPT !.net.decrypters = @ - 1])

\* The source buffer finished its append or removal and fires `updateend`.
UpdateEnd ==
  /\ Within
  /\ ~IsNull(sourceBuffer)
  /\ sourceBuffer[1].updating
  /\ LET op == sourceBuffer[1].op
     IN Becomes(With(
          [Begin("updateend") EXCEPT
             !.sourceBuffer[1].updating = FALSE,
             !.sourceBuffer[1].op = [kind |-> "none", start |-> 0, end |-> 0],
             !.tech.buffered =
               IF op.kind = "append" THEN AddRange(@, op.start, op.end)
               ELSE RemoveBefore(@, op.end)],
          updateEndHandler_))

\* The tech fires `error`.
TechError ==
  /\ Within
  /\ tech.errorEvent
  /\ Becomes(With([Begin("error") EXCEPT !.tech.errorEvent = FALSE],
                  stopCheckingBuffer_))

\* The viewer seeks.
Seek ==
  /\ Within
  /\ log.budget.seeks > 0
  /\ ~tech.seekingEvent
  /\ \E t \in SeekTargets :
       /\ t # tech.currentTime
       /\ Becomes(techSetCurrentTime(
            [Begin("seek") EXCEPT !.log.budget.seeks = @ - 1], t))

\* The tech fires `seeking`.
Seeking ==
  /\ Within
  /\ tech.seekingEvent
  /\ Becomes(With([Begin("seeking") EXCEPT !.tech.seekingEvent = FALSE],
                  LAMBDA w : setCurrentTime(w, tech.currentTime)))

\* The tech finished seeking: the target is buffered.
Seeked ==
  /\ Within
  /\ tech.seeking /\ ~tech.seekingEvent
  /\ findBufferedRange_(St, tech.currentTime) # {}
  /\ Becomes([Begin("seeked") EXCEPT !.tech.seeking = FALSE])

\* Playback advances inside the buffered range.
Playback ==
  /\ Within
  /\ ~tech.paused /\ ~tech.seeking
  /\ LET around == findBufferedRange_(St, tech.currentTime)
     IN /\ around # {}
        /\ End0(around) > tech.currentTime
        /\ Becomes([Begin("playback") EXCEPT
                      !.tech.played = TRUE,
                      !.tech.currentTime =
                        Min({@ + master[Media(St)].segments[1].length,
                             End0(around)})])

\* Wall-clock time passes.
ClockTick ==
  /\ Within /\ MayDisturb
  /\ \E p \in 1..Len(master) :
       master[p].excludeUntil # Undefined /\ master[p].excludeUntil > now
  /\ Becomes([Disturbed(Begin("clock")) EXCEPT !.now = @ + ClockStep])

\* The engine without a seeking viewer: every request answers while it is
\* outstanding.
Next ==
  \/ Src
  \/ MasterLoaded
  \/ PlaylistLoaded
  \/ PlaylistError
  \/ SourceOpen
  \/ Play
  \/ Tick
  \/ SegmentResponse
  \/ KeyResponse
  \/ DecryptDone
  \/ UpdateEnd
  \/ Playback
  \/ ClockTick
  \/ TechError

Spec == Init /\ [][Next]_vars

\* The engine with a viewer who seeks: requests are cancelled and may answer
\* late.
SeekInit ==
  InitWith({<<Variant(500, 0, 0, Undefined, TRUE, TRUE, MaxSegs, 10)>>},
           Preloads, FALSE,
           [failures |-> 0, keyFailures |-> MaxKeyFailures, seeks |-> MaxSeeks])

SeekNext ==
  \/ Src
  \/ MasterLoaded
  \/ PlaylistLoaded
  \/ SourceOpen
  \/ Play
  \/ Tick
  \/ SegmentResponse
  \/ LateSegmentResponse
  \/ KeyResponse
  \/ LateKeyResponse
  \/ DecryptDone
  \/ OrphanDecryptDone
  \/ UpdateEnd
  \/ Seek
  \/ Seeking
  \/ Seeked
  \/ Playback

SeekSpec == SeekInit /\ [][SeekNext]_vars

-----------------------------------------------------------------------------
(* The selection engine alone: the loader's events, failover and the clock,  *)
(* for masters whose variants differ in bandwidth and resolution, players of *)
(* several sizes and several bandwidth estimates.  With preload "none" the   *)
(* handler fetches no chunk.                                                 *)

\* exclusions and clock steps an execution of the selection engine may contain
MaxExclusions == 4

\* Variants of one segment each: three with a resolution, three without a
\* resolution, three of which one has no BANDWIDTH attribute, and the two
\* variants of 500 and 2000 without a resolution.
SelMasters ==
  {<<Variant(500, 320, 180, Undefined, TRUE, FALSE, 1, 10),
     Variant(2000, 640, 360, Undefined, TRUE, FALSE, 1, 20),
     Variant(8000, 1280, 720, Undefined, TRUE, FALSE, 1, 30)>>,
   <<Variant(2000, 0, 0, Undefined, TRUE, FALSE, 1, 10),
     Variant(500, 0, 0, Undefined, TRUE, FALSE, 1, 20),
     Variant(8000, 0, 0, Undefined, TRUE, FALSE, 1, 30)>>,
   <<Variant(0, 640, 360, Undefined, TRUE, FALSE, 1, 10),
     Variant(2000, 640, 360, Undefined, TRUE, FALSE, 1, 20),
     Variant(500, 1280, 720, Undefined, TRUE, FALSE, 1, 30)>>,
   <<Variant(500, 0, 0, Undefined, TRUE, FALSE, 1, 10),
     Variant(2000, 0, 0, Undefined, TRUE, FALSE, 1, 20)>>}

\* the computed width and height of the player's element; 0: not a number
PlayerSizes == {<<0, 0>>, <<640, 360>>, <<700, 400>>}

\* options.bandwidth
Estimates == {100, 1000, 2400, 3000, DefaultBandwidth}

SelInit ==
  \E m \in SelMasters, size \in PlayerSizes, estimate \in Estimates :
    LET w == Constructed(m, "none", FALSE)
    IN /\ master = w.master
       /\ playlists = w.playlists
       /\ tech = [w.tech EXCEPT !.width = size[1], !.height = size[2]]
       /\ mediaSource = w.mediaSource
       /\ sourceBuffer = w.sourceBuffer
       /\ hls = [w.hls EXCEPT !.bandwidth = estimate]
       /\ net = w.net
       /\ now = w.now
       /\ log = [w.log EXCEPT !.budget.failures = MaxExclusions]

SelNext ==
  \/ Src
  \/ MasterLoaded
  \/ PlaylistLoaded
  \/ PlaylistError
  \/ ClockTick

SelSpec == SelInit /\ [][SelNext]_vars

-----------------------------------------------------------------------------
(* Properties of rendition selection *)

\* The variant p is excluded at the current time.
Excluded(p) ==
  master[p].excludeUntil # Undefined /\ now < master[p].excludeUntil

\* The variant the selector would return if no variant were excluded
SelectedIgnoringExclusion ==
  selectPlaylist([St EXCEPT !.master =
                    [p \in 1..Len(master) |->
                       [master[p] EXCEPT !.excludeUntil = Undefined]]])

\* C1: in every state, the rendition selectPlaylist() returns is not excluded
\* at the current time, and when every rendition is excluded it returns
\* nothing (0).
SelectorNeverReturnsExcluded ==
  /\ selectPlaylist(St) # 0 => ~Excluded(selectPlaylist(St))
  /\ (\A p \in 1..Len(master) : Excluded(p)) => selectPlaylist(St) = 0

\* C1, witnessed: the rendition the selector would otherwise return is
\* excluded, and the selector returns another one.
SelectorSkipsExcluded ==
  /\ SelectedIgnoringExclusion # 0
  /\ Excluded(SelectedIgnoringExclusion)
  /\ selectPlaylist(St) # 0
  /\ selectPlaylist(St) # SelectedIgnoringExclusion

-----------------------------------------------------------------------------
(* Properties of the fetch scheduler *)

\* The number of calls `op` among the calls c
CountCalls(c, op) == Cardinality({k \in 1..Len(c) : c[k].op = op})

\* The world after fillBuffer() ran in the current state
FilledOnce == fillBuffer(Begin("fillBuffer"), NoArg)

\* C2: whatever the interleaving of the periodic check, seeks, play, fetch
\* completions, key arrivals and append completions: at most one chunk fetch
\* is outstanding, none is outstanding while a fetched chunk is pending
\* append, and a second fillBuffer() right after a first one changes nothing,
\* the two together issuing at most one fetch.
AtMostOneChunkFetch ==
  /\ Cardinality(LiveRequests(net, "segment")) <= 1
  /\ LiveRequests(net, "segment") # {} => IsNull(hls.pendingSegment_)
  /\ fillBuffer(FilledOnce, NoArg) = FilledOnce
  /\ CountCalls(FilledOnce.log.calls, "xhrSegment") <= 1

\* C2, witnessed: a seek cancelled a chunk fetch, whose response is still to
\* come, and the one fetch issued for the new position is outstanding.
OneFetchAfterCancelledOne ==
  /\ \E r \in net.requests : r.kind = "segment" /\ r.cancelled
  /\ Cardinality(LiveRequests(net, "segment")) = 1

-----------------------------------------------------------------------------
(* Scenario A: one complete, unencrypted rendition of MaxSegs chunks, preload *)
(* "auto", no failure and no seek.  The loader, the network, the media source *)
(* and the timer do what they are asked to, hence the fairness.               *)

ScenarioInit ==
  InitWith({<<Variant(500, 0, 0, Undefined, TRUE, FALSE, MaxSegs, 10)>>},
           Preloads, TRUE,
           [failures |-> 0, keyFailures |-> 0, seeks |-> 0])

ScenarioNext ==
  \/ Src
  \/ MasterLoaded
  \/ PlaylistLoaded
  \/ SourceOpen
  \/ Play
  \/ Tick
  \/ SegmentResponse
  \/ UpdateEnd
  \/ Playback

ScenarioFairness ==
  /\ WF_vars(Src)
  /\ WF_vars(MasterLoaded)
  /\ WF_vars(PlaylistLoaded)
  /\ WF_vars(SourceOpen)
  /\ WF_vars(Tick)
  /\ WF_vars(SegmentResponse)
  /\ WF_vars(UpdateEnd)

ScenarioSpec == ScenarioInit /\ [][ScenarioNext]_vars /\ ScenarioFairness

\* The media source was told that the stream ended.
Finalized == mediaSource.readyState = "ended"

\* The goal buffer length is buffered ahead of the playback position.
GoalBuffered ==
  \E r \in tech.buffered :
    /\ r[1] <= tech.currentTime /\ tech.currentTime <= r[2]
    /\ r[2] - tech.currentTime >= GOAL_BUFFER_LENGTH

\* A step that issues a chunk fetch issues one, for the chunk whose index is
\* the number of fetches before it, with no chunk pending and the chunks
\* before it appended.
FetchesInOrder ==
  log'.nfetch # log.nfetch =>
    /\ log'.nfetch = log.nfetch + 1
    /\ \E r \in LiveRequests(net', "segment") :
         r.info[1].mediaIndex = log.nfetch
    /\ IsNull(hls'.pendingSegment_)
    /\ log.nfetch > 0 => <<0, log.nfetch * SegDur>> \in tech'.buffered

\* The step that observes the append of the last chunk calls endOfStream().
EndsAfterLastChunk ==
  /\ <<0, MaxSegs * SegDur>> \in tech'.buffered
  /\ <<0, MaxSegs * SegDur>> \notin tech.buffered
  => /\ Finalized'
     /\ Called(log', "endOfStream")

\* No chunk is fetched beyond the last, and none once the stream has ended.
NoFetchAfterEnd ==
  /\ log.nfetch <= MaxSegs
  /\ Finalized => log.nfetch = MaxSegs /\ LiveRequests(net, "segment") = {}

\* C4: in scenario A the chunks 0..n-1 are fetched once each, in index order,
\* each after the append of the one before was observed; the append of the
\* last chunk is followed by endOfStream(); no chunk is fetched afterwards,
\* although the timer keeps firing; and the stream does end, unless the goal
\* buffer length is buffered ahead before.
ScenarioAFetchesEachChunkOnce ==
  /\ [][FetchesInOrder /\ EndsAfterLastChunk]_vars
  /\ []NoFetchAfterEnd
  /\ <>(Finalized \/ GoalBuffered)

\* C4, witnessed: the stream has ended after MaxSegs fetches, the playback
\* position has advanced and the timer is still armed.
ScenarioAEnded ==
  /\ Finalized
  /\ log.nfetch = MaxSegs
  /\ tech.currentTime > 0
  /\ hls.checkBufferTimeout_ # 0

-----------------------------------------------------------------------------
(* Properties of the pending chunk and of failover *)

\* The step ran a handler that made calls; log'.calls are its calls.
Observed == log'.flip # log.flip

\* C3: the pending chunk (pendingSegment_) is cleared when the append of its
\* chunk is observed, when the fetch is cancelled, and when a fatal error is
\* declared; here: the handler that declared the fatal error, calling
\* endOfStream('network'), leaves no chunk pending.
PendingClearedOnFatalError ==
  Called(log, "endOfStreamNetwork") => IsNull(hls.pendingSegment_)


\* The variant p is excluded at the time of the next state.
ExcludedNext(p) ==
  master'[p].excludeUntil # Undefined /\ now' < master'[p].excludeUntil

\* The answer of the selector once the variant p is excluded for five minutes
SelectedAfterExcluding(p) ==
  With([St EXCEPT !.master[p].excludeUntil = now + 5 * 60 * 1000],
       selectPlaylist)

\* The step excludes the variant p for five minutes and no other, and makes
\* the variant the selector then returns the active one or requests its
\* playlist; when the selector returns none, the step records the error and
\* calls endOfStream('network').
FailedOver(p) ==
  /\ master'[p].excludeUntil = now + 5 * 60 * 1000
  /\ \A q \in 1..Len(master) :
       q # p => master'[q].excludeUntil = master[q].excludeUntil
  /\ LET next == SelectedAfterExcluding(p)
     IN IF next # 0
        THEN /\ next # p
             /\ playlists'.media_ = next \/ playlists'.request = next
             /\ hls'.error = hls.error
             /\ ~Called(log', "endOfStreamNetwork")
        ELSE /\ hls'.error
             /\ Called(log', "endOfStreamNetwork")

\* A chunk request the step issues is for a chunk of the active rendition,
\* which is not excluded unless the fatal error was recorded.
NextChunkFromEligible ==
  \A r \in LiveRequests(net', "segment") \ net.requests :
    /\ r.info[1].playlist = playlists'.media_
    /\ hls'.error \/ ~ExcludedNext(playlists'.media_)

\* C5: a chunk request that answers with an error, being neither timed out
\* nor aborted, excludes the active rendition until now + 5 minutes (a failed
\* playlist request excludes the rendition it names) and runs the selector;
\* the rendition the selector returns, which is another one, becomes the
\* active one and the next chunk is requested from it; when the selector
\* returns none, the error is recorded and endOfStream('network') is called.
TransportErrorExcludesRendition ==
  [][/\ \A r \in net.requests, response \in SegmentFailure :
          response.error /\ ~response.timedout /\ SegmentResponds(r, response)
            => FailedOver(playlists.media_)
     /\ PlaylistError => FailedOver(playlists.request)
     /\ NextChunkFromEligible]_vars

\* C5, witnessed: the chunk request failed, the rendition it was for is
\* excluded and the playlist of the other rendition is requested.
FailedOverToOtherRendition ==
  /\ Called(log, "segmentError")
  /\ ~hls.error
  /\ playlists.request # 0
  /\ playlists.request # playlists.media_
  /\ Excluded(playlists.media_)
  /\ ~Excluded(playlists.request)


-----------------------------------------------------------------------------
(* Properties of a key that failed for good *)

\* C6: when the key of an encrypted chunk failed twice, no third request is
\* made for it, the chunk is never appended, and the rendition that is
\* excluded is the one that owns the chunk, the playlist of the pending
\* chunk; here: the handler that found the key of the pending chunk failed
\* excluded the rendition that owns that chunk.
OwningRenditionExcluded ==
  \A k, j \in 1..Len(log.calls) :
    log.calls[k].op = "keyFailed" /\ log.calls[j].op = "blacklist"
      => log.calls[j].arg = log.calls[k].arg

\* C7: a key that failed for good excludes one rendition and does not end the
\* session; here: once the rendition that owns the pending chunk is excluded,
\* a step that finds the key of that chunk failed again changes the exclusion
\* of no other rendition and, another rendition being eligible, does not call
\* endOfStream('network').
KeyFailureExcludesOneRendition ==
  [][Observed /\ Called(log', "keyFailed") /\ ~IsNull(hls.pendingSegment_)
       => LET owner == hls.pendingSegment_[1].playlist
          IN Excluded(owner)
               => /\ \A q \in 1..Len(master) :
                       q # owner =>
                         master'[q].excludeUntil = master[q].excludeUntil
                  /\ (\E q \in 1..Len(master) : ~Excluded(q))
                       => ~Called(log', "endOfStreamNetwork")]_vars


-----------------------------------------------------------------------------
(* Properties of the chunk callback *)

\* C8: a chunk request that answers as timed out, with or without an error,
\* sets the bandwidth estimate to 1 and makes the rendition the selector
\* returns for that estimate the active one (or requests its playlist); it
\* changes no rendition's excludeUntil, records no error, leaves no chunk
\* pending and does not change the last loaded chunk.
TimeoutLowersBandwidthOnly ==
  [][\A r \in net.requests, response \in SegmentFailure :
       response.timedout /\ SegmentResponds(r, response)
         => /\ hls'.bandwidth = 1
            /\ LET next == With([St EXCEPT !.hls.bandwidth = 1], selectPlaylist)
               IN next # 0 =>
                    playlists'.media_ = next \/ playlists'.request = next
            /\ \A p \in 1..Len(master) :
                 master'[p].excludeUntil = master[p].excludeUntil
            /\ hls'.error = hls.error
            /\ ~Called(log', "endOfStreamNetwork")
            /\ ~Called(log', "blacklist")
            /\ IsNull(hls'.pendingSegment_)
            /\ hls'.lastSegmentLoaded_ = hls.lastSegmentLoaded_
            /\ hls'.segmentXhr_ = 0]_vars

\* C8, witnessed: a chunk request answered as timed out and with an error
\* while the 2000 bit/s rendition was active; the estimate is 1, the playlist
\* of the other rendition is requested and no rendition is excluded.
TimedOutWithError ==
  /\ \E k \in 1..Len(log.calls) :
       log.calls[k].op = "timedout" /\ log.calls[k].arg = 1
  /\ hls.bandwidth = 1
  /\ playlists.request # 0
  /\ playlists.request # playlists.media_
  /\ \A p \in 1..Len(master) : ~Excluded(p)


-----------------------------------------------------------------------------
(* Properties of cancellation *)

\* C9: the callback of a request that was cancelled or superseded changes no
\* state of the engine, be it a chunk or a key request: the handles of the
\* outstanding requests, the stored bytes, the retry counters, the bandwidth
\* estimate, the exclusions and the active rendition stay as they are.
LateCallbackChangesNothing ==
  [][LateSegmentResponse \/ LateKeyResponse
       => /\ hls' = hls
          /\ master' = master
          /\ playlists' = playlists
          /\ sourceBuffer' = sourceBuffer]_vars


\* The position a `seeking` event is for lies in a buffered range.
TargetBuffered == findBufferedRange_(St, tech.currentTime) # {}

\* The pending chunk was handed to the source buffer: its append is under way.
AppendUnderWay ==
  /\ ~IsNull(hls.pendingSegment_)
  /\ ~IsNull(hls.pendingSegment_[1].buffered)

\* The chunk that is being fetched, or is pending, covers the position the
\* `seeking` event is for.
TargetInProgress ==
  \/ \E r \in LiveRequests(net, "segment") :
       r.info[1].mediaIndex = getMediaIndexForTime_(St, tech.currentTime)
  \/ /\ ~IsNull(hls.pendingSegment_)
     /\ hls.pendingSegment_[1].mediaIndex =
          getMediaIndexForTime_(St, tech.currentTime)

\* The step cancels the chunk request and the key request the engine holds
\* (segmentXhr_, keyXhr_), clears the pending chunk and the last loaded chunk,
\* and fills from the chunk index of the position: the chunk request
\* outstanding afterwards is a new one, for that index, and there is one
\* whenever fillBuffer's guards allow a fetch; the key request held afterwards
\* is a new one.
CancelsAndRefills ==
  LET index == getMediaIndexForTime_(St, tech.currentTime)
  IN /\ \A r \in net.requests :
          r.id = hls.segmentXhr_ \/ r.id = hls.keyXhr_
            => \E q \in net'.requests : q.id = r.id /\ q.cancelled
     /\ \A r \in net.requests :
          r.id = hls.keyXhr_
            => \E q \in net'.requests : q.id = r.id /\ q.aborted
     /\ IsNull(hls'.pendingSegment_)
     /\ IsNull(hls'.lastSegmentLoaded_)
     /\ \A q \in LiveRequests(net', "segment") :
          /\ q \notin net.requests
          /\ q.id = hls'.segmentXhr_
          /\ q.info[1].mediaIndex = index
     /\ \A q \in net'.requests :
          q.id = hls'.keyXhr_ => q \notin net.requests
     /\ /\ hls.loadingState_ = "segments"
        /\ playlists.state = "HAVE_METADATA"
        /\ ~IsNull(SegmentAt(St, playlists.media_, index))
        => LiveRequests(net', "segment") # {}

\* C10, as the specification states it: a seek to a position that is already
\* buffered, or whose chunk is in progress, cancels the outstanding chunk and
\* key requests, clears the pending chunk and fills from the chunk index of
\* the position.
SeekToBufferedCancels ==
  [][Seeking /\ playlists.media_ # 0 /\ (TargetBuffered \/ TargetInProgress)
       => CancelsAndRefills]_vars

\* C10, as the code has it: a seek to a position outside every buffered range,
\* while no append of the pending chunk is under way, cancels the chunk and
\* key requests held in segmentXhr_ and keyXhr_, clears the pending chunk and
\* the last loaded chunk, and fills from the chunk index of the position; a
\* seek to a buffered position, or during an append, cancels nothing and
\* fetches nothing.
SeekToUnbufferedCancels ==
  [][Seeking /\ playlists.media_ # 0
       => IF ~TargetBuffered /\ ~AppendUnderWay
          THEN CancelsAndRefills
          ELSE /\ hls' = hls
               /\ \A r \in net.requests : r \in net'.requests
               /\ \A q \in net'.requests : q \in net.requests]_vars

\* C10, witnessed: the seek to an unbuffered position cancelled the chunk and
\* the key request that were outstanding, whose callbacks are still to come,
\* and a chunk request for the chunk where the position lies, not the first
\* one, is outstanding.
SeekCancelledBothRequests ==
  /\ Called(log, "cancel")
  /\ \E r \in net.requests : r.kind = "segment" /\ r.cancelled
  /\ \E r \in net.requests : r.kind = "key" /\ r.cancelled /\ r.aborted
  /\ \E q \in LiveRequests(net, "segment") :
       /\ q.id = hls.segmentXhr_
       /\ q.info[1].mediaIndex = getMediaIndexForTime_(St, tech.currentTime)
       /\ q.info[1].mediaIndex > 0
  /\ IsNull(hls.pendingSegment_)


-----------------------------------------------------------------------------
(* Properties of retries and of the loading permission *)

\* C11: no failing operation is retried without bound; here: once the
\* blacklisting has left no eligible rendition, the fatal error is recorded,
\* the media source was ended for the reason 'network' and the tech's `error`
\* event has stopped the buffer check, no step issues a chunk request.
NoFetchAfterFatalError ==
  [][/\ hls.error
     /\ \A p \in 1..Len(master) : Excluded(p)
     /\ mediaSource.readyState = "ended"
     /\ ~tech.errorEvent
     /\ hls.checkBufferTimeout_ = 0
     => LiveRequests(net', "segment") \subseteq net.requests]_vars


\* The engine before and after play(), for every preload setting, with a
\* complete and with a live rendition, and a viewer who may seek.
PreloadMasters ==
  {<<Variant(500, 0, 0, Undefined, endList, FALSE, MaxSegs, 10)>> :
     endList \in BOOLEAN}
  \cup {MasterOf(<<FALSE, FALSE>>)}

PreloadSettings == {"none", "metadata", "auto"}

PreloadInit ==
  InitWith(PreloadMasters, PreloadSettings, FALSE,
           [failures |-> 0, keyFailures |-> 0, seeks |-> MaxSeeks])

PreloadNext ==
  \/ Src
  \/ MasterLoaded
  \/ PlaylistLoaded
  \/ SourceOpen
  \/ Play
  \/ Tick
  \/ SegmentResponse
  \/ LateSegmentResponse
  \/ UpdateEnd
  \/ Seek
  \/ Seeking
  \/ Seeked
  \/ Playback

PreloadSpec == PreloadInit /\ [][PreloadNext]_vars


\* Everything fillBuffer asks for before it fetches a chunk
FillGuards ==
  /\ hls.loadingState_ = "segments"
  /\ tech.currentSrc
  /\ playlists.state # "NONE"
  /\ hls.segmentXhr_ = 0
  /\ IsNull(hls.pendingSegment_)
  /\ playlists.state # "HAVE_NOTHING"
  /\ Media(St) # 0
  /\ playlists.state # "SWITCHING_MEDIA"

FillIndices == {NoArg} \cup 0..MaxSegs

\* C12: fillBuffer issues a chunk fetch only in a state where the loading
\* permission is 'segments', the source and the loader exist, no chunk fetch
\* is outstanding, no chunk is pending, the active rendition's chunk list is
\* known and the loader is not switching renditions; in any other state it
\* changes nothing. A step that issued a chunk fetch leaves the permission
\* at 'segments', the source set and the active rendition known.
FetchOnlyWhenGuardsHold ==
  /\ [](\A mediaIndex \in FillIndices :
          LET after == fillBuffer(Begin("fillBuffer"), mediaIndex)
          IN /\ Called(after.log, "xhrSegment") => FillGuards
             /\ ~FillGuards => after = Begin("fillBuffer"))
  /\ [][(Observed /\ Called(log', "xhrSegment"))
        => /\ hls'.loadingState_ = "segments"
           /\ tech'.currentSrc
           /\ playlists'.state \notin {"NONE", "HAVE_NOTHING"}
           /\ Media(St)' # 0]_vars

FillBufferHeldBack ==
  /\ ~FillGuards
  /\ tech.currentSrc
  /\ Media(St) # 0
  /\ hls.segmentXhr_ = 0
  /\ IsNull(hls.pendingSegment_)
  /\ \/ hls.loadingState_ = "meta"
     \/ playlists.state = "SWITCHING_MEDIA"


\* The master playlist has a live rendition.
Live == \E p \in 1..Len(master) : ~master[p].endList

\* C13: the loading permission is 'none' with preload none and 'meta'
\* otherwise until the first media playlist is loaded or play() is called; it
\* changes only to 'segments', and only in play() or at loadedmetadata of a
\* complete rendition with preload neither none nor metadata, so it is never
\* downgraded; with preload none or metadata, or with a live rendition, no
\* chunk is fetched by a step before play().
PermissionRisesOnlyByPlayOrMetadata ==
  /\ []((tech.paused /\ Media(St) = 0)
        => hls.loadingState_ = IF tech.preload = "none" THEN "none" ELSE "meta")
  /\ [][hls'.loadingState_ # hls.loadingState_
        => /\ hls'.loadingState_ = "segments"
           /\ \/ Play
              \/ /\ PlaylistLoaded
                 /\ Media(St) = 0
                 /\ Media(St)' # 0
                 /\ master'[Media(St)'].endList
                 /\ tech.preload \notin {"none", "metadata"}]_vars
  /\ [][(tech'.paused /\ (tech.preload \in {"none", "metadata"} \/ Live))
        => /\ LiveRequests(net', "segment") = {}
           /\ ~(Observed /\ Called(log', "xhrSegment"))
           /\ hls'.loadingState_ # "segments"]_vars

MetadataLoadedBeforePlay ==
  /\ tech.preload = "metadata"
  /\ tech.paused
  /\ Media(St) # 0
  /\ master[Media(St)].endList
  /\ mediaSource.readyState = "open"
  /\ hls.loadingState_ = "meta"


-----------------------------------------------------------------------------
(* Properties of the exclusion period and of the choice by bitrate *)

\* The renditions that pass the selector's exclusion filter
Eligible == {sortedPlaylists(St)[k] : k \in 1..Len(sortedPlaylists(St))}

\* C14: a step that blacklists a rendition at time T sets its exclusion to
\* T + 5 minutes; a rendition whose last blacklisting was at T is neither
\* eligible nor returned by selectPlaylist() while the clock is before
\* T + 5 minutes, and is eligible from exactly T + 5 minutes on; once every
\* exclusion has run out the selector returns what it returns without any.
ExcludedForFiveMinutes ==
  /\ [][\A k \in 1..Len(log'.calls) :
          (Observed /\ log'.calls[k].op = "blacklist")
          => master'[log'.calls[k].arg].excludeUntil = now + 5 * 60 * 1000]_vars
  /\ [](\A p \in 1..Len(master) :
          master[p].excludeUntil # Undefined
          => LET T == master[p].excludeUntil - 5 * 60 * 1000
             IN /\ now < T + 5 * 60 * 1000
                   => p \notin Eligible /\ selectPlaylist(St) # p
                /\ now >= T + 5 * 60 * 1000 => p \in Eligible)
  /\ []((\A p \in 1..Len(master) :
           master[p].excludeUntil # Undefined => now >= master[p].excludeUntil)
        => selectPlaylist(St) = SelectedIgnoringExclusion)

ReturnedWhenExclusionEnds ==
  \E p \in 1..Len(master) :
    /\ master[p].excludeUntil # Undefined
    /\ now = master[p].excludeUntil
    /\ selectPlaylist(St) = p


\* The eligible renditions whose bitrate times 1.2 is strictly below the
\* bandwidth estimate
Affordable ==
  {p \in Eligible : /\ master[p].BANDWIDTH # 0
                    /\ master[p].BANDWIDTH * 12 < hls.bandwidth * 10}

\* No rendition of the master declares a resolution.
NoResolutions ==
  \A p \in 1..Len(master) :
    master[p].RESOLUTION.width = 0 /\ master[p].RESOLUTION.height = 0

\* C15: without resolution information selectPlaylist() returns the eligible
\* rendition of highest bitrate among those whose bitrate times 1.2 is
\* strictly below the estimate, and the eligible rendition of lowest bitrate
\* when there is none; with or without resolutions, when some eligible
\* rendition has its bitrate times 1.2 below the estimate, so has the one
\* returned; for the renditions of 500 and 2000 and the estimate 1000 it
\* returns the one of 500.
HighestAffordableBitrate ==
  LET selected == selectPlaylist(St)
      declared == {p \in Eligible : master[p].BANDWIDTH # 0}
  IN /\ (NoResolutions /\ Affordable # {})
        => /\ selected \in Affordable
           /\ \A q \in Affordable :
                master[q].BANDWIDTH <= master[selected].BANDWIDTH
     /\ (NoResolutions /\ Affordable = {} /\ Eligible # {})
        => /\ selected \in Eligible
           /\ declared # {}
              => /\ selected \in declared
                 /\ \A q \in declared :
                      master[selected].BANDWIDTH <= master[q].BANDWIDTH
     /\ Affordable # {} => selected \in Affordable
     /\ (/\ Len(master) = 2
         /\ Eligible = {1, 2}
         /\ NoResolutions
         /\ master[1].BANDWIDTH = 500
         /\ master[2].BANDWIDTH = 2000
         /\ hls.bandwidth = 1000)
        => selected = 1

HighestBelowEqualBitrate ==
  /\ NoResolutions
  /\ \E p \in Eligible : master[p].BANDWIDTH * 12 = hls.bandwidth * 10
  /\ Affordable # {}
  /\ selectPlaylist(St) \in Affordable
  /\ selectPlaylist(St) = Media(St)


-----------------------------------------------------------------------------
(* The reconciler alone: an `updateend` arrives for a pending chunk whose    *)
(* snapshot of the buffered ranges and whose buffered ranges after the       *)
(* append are any two sets of ranges over a few points of the timeline.      *)

\* the points of the timeline the ranges start and end at
RangePoints == {0, 10, 12, 25}

\* TimeRanges of at most two ranges, in order and not overlapping
RangeSets ==
  LET spans == {r \in RangePoints \X RangePoints : r[1] < r[2]}
  IN {{}} \cup {{r} : r \in spans}
          \cup {{p[1], p[2]} : p \in {p \in spans \X spans : p[1][2] <= p[2][1]}}

\* The engine waiting for the `updateend` of chunk mediaIndex of its only
\* rendition: `original` was recorded by drainBuffer, `update` is buffered.
Appended(original, update, mediaIndex) ==
  LET w == Constructed(<<Variant(500, 0, 0, Undefined, TRUE, FALSE, MaxSegs, 10)>>,
                       "auto", FALSE)
  IN [w EXCEPT
        !.master[1].loaded = TRUE,
        !.playlists.state = "HAVE_METADATA",
        !.playlists.startingState = "HAVE_MASTER",
        !.playlists.media_ = 1,
        !.tech.currentSrc = TRUE,
        !.tech.paused = FALSE,
        !.tech.buffered = update,
        !.mediaSource.readyState = "open",
        !.sourceBuffer =
          Some([updating |-> TRUE, timestampOffset |-> 0, shift |-> 0,
                op |-> [kind |-> "none", start |-> 0, end |-> 0],
                codecs |-> <<>>]),
        !.hls.loadingState_ = "segments",
        !.hls.pendingSegment_ =
          Some([uri |-> w.master[1].segments[mediaIndex + 1].uri,
                mediaIndex |-> mediaIndex,
                mediaSequence |-> 0,
                playlist |-> 1,
                currentBufferedEnd |-> 0,
                bytes |-> TRUE,
                encryptedBytes |-> FALSE,
                decrypter |-> FALSE,
                buffered |-> Some(original),
                timestampOffset |-> TsNull])]

RangesInit ==
  \E original \in RangeSets, update \in RangeSets, mediaIndex \in 0..1 :
    LET w == Appended(original, update, mediaIndex)
    IN /\ master = w.master
       /\ playlists = w.playlists
       /\ tech = w.tech
       /\ mediaSource = w.mediaSource
       /\ sourceBuffer = w.sourceBuffer
       /\ hls = w.hls
       /\ net = w.net
       /\ now = w.now
       /\ log = w.log

RangesNext ==
  \/ UpdateEnd
  \/ SegmentResponse
  \/ Tick

RangesSpec == RangesInit /\ [][RangesNext]_vars


-----------------------------------------------------------------------------
(* Properties of the timeline reconciliation *)

\* The end-points of `update` that no range of `original` covers
UncoveredEnds(original, update) ==
  {r[2] : r \in {r \in update :
                   ~\E span \in original : span[1] <= r[2] /\ r[2] <= span[2]}}

\* The `updateend` of this step reconciles the timeline of the pending chunk.
Reconciles ==
  /\ UpdateEnd
  /\ ~IsNull(hls.pendingSegment_)
  /\ ~IsNull(hls.pendingSegment_[1].buffered)
  /\ hls.pendingSegment_[1].playlist = Media(St)

\* C16: findSoleUncommonTimeRangesEnd_(before, after) is the end-point of
\* `after` that no range of `before` covers when there is exactly one such
\* end-point, and null (0) when there is none or more than one; the
\* reconciler records it as the end of the appended chunk, and leaves the end
\* alone when it is null; before = [[0,10]], after = [[0,10],[10,25]] give 25.
SoleUncoveredEndIsReturned ==
  [][Reconciles
     => LET before == hls.pendingSegment_[1].buffered[1]
            after == tech'.buffered
            segmentIndex == hls.pendingSegment_[1].mediaIndex + 1
            uncovered == UncoveredEnds(before, after)
            timelineUpdate == findSoleUncommonTimeRangesEnd_(before, after)
        IN /\ Cardinality(uncovered) = 1
              => /\ timelineUpdate \in uncovered
                 /\ master'[Media(St)].segments[segmentIndex].end = timelineUpdate
           /\ Cardinality(uncovered) # 1
              => /\ timelineUpdate = 0
                 /\ master'[Media(St)].segments[segmentIndex].end
                      = master[Media(St)].segments[segmentIndex].end
           /\ (before = {<<0, 10>>} /\ after = {<<0, 10>>, <<10, 25>>})
              => timelineUpdate = 25]_vars

NewRangeEndRecorded ==
  /\ tech.buffered = {<<0, 10>>, <<10, 25>>}
  /\ IsNull(hls.pendingSegment_)
  /\ \E i \in 1..MaxSegs : master[1].segments[i].end = 25


\* `after` is `before` with the range b replaced by a range of the same
\* start and another end.
EndMoved(before, after, b, a) ==
  /\ b \in before
  /\ a \in after
  /\ a[1] = b[1]
  /\ a[2] # b[2]
  /\ before \ {b} = after \ {a}

\* C17, as the code has it: when the only difference between `before` and
\* `after` is that a range kept its start and changed its end, the function
\* returns null (0) for a shrink, and for a growth the new end, unless
\* another range of `before` covers that end; the reconciler records the new
\* end.  before = [[0,10]], after = [[0,12]] give 12.
GrowthReturnsNewEnd ==
  [][Reconciles
     => LET before == hls.pendingSegment_[1].buffered[1]
            after == tech'.buffered
            segmentIndex == hls.pendingSegment_[1].mediaIndex + 1
            timelineUpdate == findSoleUncommonTimeRangesEnd_(before, after)
        IN /\ \A b \in before, a \in after :
                EndMoved(before, after, b, a)
                => /\ a[2] < b[2] => timelineUpdate = 0
                   /\ (/\ a[2] > b[2]
                       /\ ~\E span \in before :
                             span[1] <= a[2] /\ a[2] <= span[2])
                      => /\ timelineUpdate = a[2]
                         /\ master'[Media(St)].segments[segmentIndex].end = a[2]
           /\ (before = {<<0, 10>>} /\ after = {<<0, 12>>})
              => timelineUpdate = 12]_vars

\* C17, as stated: whenever a range kept its start and changed its end and
\* nothing else differs, the function returns null.
MovedEndReturnsNull ==
  [][Reconciles
     => LET before == hls.pendingSegment_[1].buffered[1]
            after == tech'.buffered
        IN \A b \in before, a \in after :
             EndMoved(before, after, b, a)
             => findSoleUncommonTimeRangesEnd_(before, after) = 0]_vars

GrownRangeReconciled ==
  /\ ~IsNull(hls.pendingSegment_)
  /\ hls.pendingSegment_[1].buffered = Some({<<0, 10>>})
  /\ tech.buffered = {<<0, 12>>}
  /\ findSoleUncommonTimeRangesEnd_({<<0, 10>>}, tech.buffered) = 12


-----------------------------------------------------------------------------
(* The engine on a rendition of long chunks whose second chunk starts a      *)
(* discontinuity, with a viewer who seeks: the engine removes what lies far  *)
(* behind the playhead, and chunks are appended again under another          *)
(* timestamp offset.                                                         *)

\* seeks an execution over the discontinuity may contain
MaxJumps == 3

\* duration of the chunks of the rendition, in seconds: beyond the 60 seconds
\* the engine keeps behind the playhead
LongDur == 40

\* positions the viewer seeks to, in seconds
JumpTargets == {0, LongDur + 5}

\* The rendition: MaxSegs chunks of LongDur seconds; the second one starts a
\* discontinuity.
LongVariant ==
  [Variant(500, 0, 0, Undefined, TRUE, FALSE, MaxSegs, 10) EXCEPT
     !.segments = [i \in 1..MaxSegs |->
                     [@[i] EXCEPT !.duration = LongDur,
                                  !.length = LongDur,
                                  !.discontinuity = (i = 2)]]]

DiscontinuityInit ==
  InitWith({<<LongVariant>>}, Preloads, FALSE,
           [failures |-> 0, keyFailures |-> 0, seeks |-> MaxJumps])

\* The viewer seeks into the rendition.
Jump ==
  /\ Within
  /\ log.budget.seeks > 0
  /\ ~tech.seekingEvent
  /\ \E t \in JumpTargets :
       /\ t # tech.currentTime
       /\ Becomes(techSetCurrentTime(
            [Begin("seek") EXCEPT !.log.budget.seeks = @ - 1], t))

DiscontinuityNext ==
  \/ Src
  \/ MasterLoaded
  \/ PlaylistLoaded
  \/ SourceOpen
  \/ Play
  \/ Tick
  \/ SegmentResponse
  \/ LateSegmentResponse
  \/ UpdateEnd
  \/ Jump
  \/ Seeking
  \/ Seeked
  \/ Playback

DiscontinuitySpec == DiscontinuityInit /\ [][DiscontinuityNext]_vars

\* C18: across fetches, appends, evictions, seeks and re-fetches no step
\* lowers the `end` recorded for a chunk, a chunk without a recorded end
\* counting as 0: every update of a chunk's end by the reconciler writes a
\* value greater than or equal to the one it had.
ChunkEndNeverDecreases ==
  [][\A p \in 1..Len(master) :
       \A i \in 1..Len(master[p].segments) :
         master'[p].segments[i].end >= master[p].segments[i].end]_vars


-----------------------------------------------------------------------------
(* Key fetches of an encrypted rendition whose viewer seeks while keys are   *)
(* on their way and whose key server fails                                   *)

\* seeks an execution of the key fetches may contain
MaxKeySeeks == 2
\* failed key responses an execution of the key fetches may contain
MaxKeyRetries == 2

KeyInit ==
  InitWith({<<Variant(500, 0, 0, Undefined, TRUE, TRUE, MaxSegs, 10)>>},
           Preloads, FALSE,
           [failures |-> 0, keyFailures |-> MaxKeyRetries,
            seeks |-> MaxKeySeeks])

KeySpec == KeyInit /\ [][SeekNext]_vars

\* The key requests a step issues: the renditions whose key it asks for.
KeysRequested(l) ==
  {l.calls[k].arg : k \in {j \in 1..Len(l.calls) : l.calls[j].op = "xhrKey"}}

\* C19: at most one key fetch is outstanding at any time; a key request is
\* never issued for a key whose bytes are stored or whose retry counter has
\* reached 2; and so no key's retry counter ever exceeds 2.
KeyFetchesAreBounded ==
  /\ [](Cardinality(LiveRequests(net, "key")) <= 1)
  /\ [][Observed =>
          \A p \in KeysRequested(log') :
            ~master[p].key.bytes /\ master[p].key.retries < 2]_vars
  /\ [](\A p \in 1..Len(master) : master[p].key.retries <= 2)


-----------------------------------------------------------------------------
(* Properties of the decrypt tasks *)

\* The decrypt tasks that have not delivered their result: the one of the
\* pending chunk and those of chunks that were dropped meanwhile.
DecryptTasksRunning == (IF net.decrypting THEN 1 ELSE 0) + net.decrypters

\* C20: at most one decrypt task is running at any time, so no decrypt is
\* started while an earlier one has not delivered its result, also after a
\* seek dropped the pending chunk the earlier task works on.
AtMostOneDecryptRunning ==
  /\ [](DecryptTasksRunning <= 1)
  /\ [][Observed /\ Called(log', "decrypt") => DecryptTasksRunning = 0]_vars


-----------------------------------------------------------------------------
(* Scenario B: one complete, encrypted rendition of MaxSegs chunks, preload  *)
(* "auto", no failed request and no seek; a decrypt task may complete with   *)
(* an error.  The loader, the network, the decrypter, the media source and   *)
(* the timer do what they are asked to, hence the fairness.                  *)

DecryptInit ==
  InitWith({<<Variant(500, 0, 0, Undefined, TRUE, TRUE, MaxSegs, 10)>>},
           Preloads, TRUE,
           [failures |-> 0, keyFailures |-> 0, seeks |-> 0])

\* The decrypter of the pending segment completes with an error; it delivers
\* some output or none: warn(error); segmentInfo.bytes = localBytes.
DecryptError ==
  /\ Within
  /\ net.decrypting
  /\ \E localBytes \in BOOLEAN :
       Becomes(Call([Begin("decryptError") EXCEPT
                       !.net.decrypting = FALSE,
                       !.hls.pendingSegment_[1].bytes = localBytes],
                    [op |-> "warn", arg |-> localBytes]))

DecryptNext ==
  \/ Src
  \/ MasterLoaded
  \/ PlaylistLoaded
  \/ SourceOpen
  \/ Play
  \/ Tick
  \/ SegmentResponse
  \/ KeyResponse
  \/ DecryptDone
  \/ DecryptError
  \/ UpdateEnd
  \/ Playback

DecryptFairness ==
  /\ WF_vars(Src)
  /\ WF_vars(MasterLoaded)
  /\ WF_vars(PlaylistLoaded)
  /\ WF_vars(SourceOpen)
  /\ WF_vars(Tick)
  /\ WF_vars(SegmentResponse)
  /\ WF_vars(KeyResponse)
  /\ WF_vars(DecryptDone \/ DecryptError)
  /\ WF_vars(UpdateEnd)

DecryptSpec == DecryptInit /\ [][DecryptNext]_vars /\ DecryptFairness

\* The pending chunk was handed to the source buffer, or there is none.
PendingSettled ==
  IsNull(hls.pendingSegment_) \/ ~IsNull(hls.pendingSegment_[1].buffered)

\* A decrypt task has just completed with an error.
DecryptErrored == Called(log, "warn")

\* A decrypt task has delivered the plaintext of the pending chunk, which is
\* not appended yet.
Decrypted ==
  /\ ~IsNull(hls.pendingSegment_)
  /\ hls.pendingSegment_[1].decrypter
  /\ hls.pendingSegment_[1].bytes
  /\ IsNull(hls.pendingSegment_[1].buffered)

\* C21: a decrypt task that completes with an error, whatever it delivered,
\* does not stall the pipeline: the pending chunk is eventually appended or
\* dropped and the later chunks are eventually fetched, up to the end of the
\* stream; and the plaintext of a successful decrypt is eventually appended.
DecryptErrorDoesNotStall ==
  /\ DecryptErrored ~> PendingSettled
  /\ DecryptErrored ~> Finalized
  /\ Decrypted ~> PendingSettled


-----------------------------------------------------------------------------
(* Properties of the bandwidth estimate *)

\* C22: a chunk request that answers with the chunk sets the bandwidth
\* estimate to the bandwidth measured for that request, whatever the estimate
\* was; the chunk is handed to drainBuffer first, and the rendition the
\* selector returns for the new estimate, in the state drainBuffer left,
\* becomes the active one (or its playlist is requested).
BandwidthIsLastMeasured ==
  [][\A r \in net.requests, response \in SegmentSuccess :
       (/\ Called(log', "loaded")
        /\ r.id = hls.segmentXhr_
        /\ SegmentResponds(r, response))
         => /\ hls'.bandwidth = response.bandwidth
            /\ log'.calls[1].op = "loaded"
            /\ LET next == With([St EXCEPT !.hls.bandwidth = response.bandwidth,
                                            !.master = master'],
                                 selectPlaylist)
               IN next # 0 =>
                    playlists'.media_ = next \/ playlists'.request = next]_vars

\* C22, witnessed: the first chunk of the 2000 bit/s rendition arrived with a
\* measured bandwidth of 1000, below the initial estimate; it was handed to
\* the source buffer, the estimate is 1000 and the playlist of the 500 bit/s
\* rendition is requested.
MeasuredBelowEstimate ==
  /\ Called(log, "loaded")
  /\ Called(log, "appendBuffer")
  /\ hls.bandwidth = 1000
  /\ playlists.media_ = 2
  /\ playlists.request = 1


-----------------------------------------------------------------------------
(* Renditions that declare their codecs: playlist and chunk requests fail,   *)
(* exclusions run out, for masters whose variants are not all compatible     *)
(* with one another.                                                         *)

Avc == [codec |-> "avc1", profile |-> "4d400d"]
Aac == [codec |-> "mp4a", profile |-> "2"]
HeAac == [codec |-> "mp4a", profile |-> "5"]

\* The variant of the given bandwidth and CODECS attribute
CodecVariant(bw, uriBase, codecs) ==
  [Variant(bw, 0, 0, Undefined, TRUE, FALSE, MaxSegs, uriBase) EXCEPT
     !.CODECS = codecs]

\* Masters with an audio-only variant, with an HE-AAC variant, and with a
\* variant that declares no codecs next to one that declares H.264.
CodecMasters ==
  {<<CodecVariant(500, 10, <<Avc, Aac>>), CodecVariant(2000, 20, <<Aac>>)>>,
   <<CodecVariant(500, 10, <<Avc, Aac>>), CodecVariant(2000, 20, <<Avc, HeAac>>)>>,
   <<CodecVariant(500, 10, <<>>), CodecVariant(2000, 20, <<Avc, Aac>>)>>}

CodecInit ==
  InitWith(CodecMasters, Preloads, FALSE,
           [failures |-> MaxExclusions, keyFailures |-> 0, seeks |-> 0])

CodecNext ==
  \/ Src
  \/ MasterLoaded
  \/ PlaylistLoaded
  \/ PlaylistError
  \/ SourceOpen
  \/ Play
  \/ Tick
  \/ SegmentResponse
  \/ UpdateEnd
  \/ Playback
  \/ ClockTick
  \/ TechError

CodecSpec == CodecInit /\ [][CodecNext]_vars

\* The variant p was marked when the source buffer was set up: its codecs
\* differ from those of the media playlist the source buffer was made for in
\* their number, in the video codec, or in one of the two being HE-AAC.
MarkedIncompatible(p) ==
  /\ ~IsNull(sourceBuffer)
  /\ LET v == CodecsOf(master[p])
         m == CodecsOf([CODECS |-> sourceBuffer[1].codecs])
     IN \/ v.codecCount # m.codecCount
        \/ v.videoCodec # m.videoCodec
        \/ (v.audioProfile = "5") # (m.audioProfile = "5")

\* C23: a variant that was marked as incompatible is never returned by
\* selectPlaylist afterwards, whatever blacklistings and playlist errors
\* follow; and the step that sets up the source buffer does not mark the
\* media playlist it sets it up for.
IncompatibleNeverSelected ==
  /\ [](\A p \in 1..Len(master) :
          MarkedIncompatible(p) => selectPlaylist(St) # p)
  /\ [][IsNull(sourceBuffer) /\ ~IsNull(sourceBuffer')
          => master'[playlists'.media_].excludeUntil
               = master[playlists'.media_].excludeUntil]_vars


-----------------------------------------------------------------------------
(* Disposal: an encrypted rendition is loading, nobody plays or seeks, and   *)
(* the handler is disposed of at some point after the master playlist was    *)
(* loaded.  What was cancelled may still answer.                             *)

DisposeInit ==
  InitWith({<<Variant(500, 0, 0, Undefined, TRUE, TRUE, MaxSegs, 10)>>},
           Preloads, FALSE,
           [failures |-> 0, keyFailures |-> MaxKeyFailures, seeks |-> 0])

\* The handler is disposed of.
Dispose ==
  /\ Within
  /\ ~hls.disposed
  /\ playlists.state \notin {"NONE", "HAVE_NOTHING"}
  /\ Becomes(With(Begin("dispose"), dispose))

DisposeNext ==
  \/ Src
  \/ MasterLoaded
  \/ PlaylistLoaded
  \/ SourceOpen
  \/ Tick
  \/ SegmentResponse
  \/ LateSegmentResponse
  \/ KeyResponse
  \/ LateKeyResponse
  \/ DecryptDone
  \/ OrphanDecryptDone
  \/ UpdateEnd
  \/ Dispose

DisposeSpec == DisposeInit /\ [][DisposeNext]_vars

\* Nothing of the handler is outstanding: no chunk request, no key request,
\* no buffer-check timer, no pending chunk.
NothingOutstanding ==
  /\ LiveRequests(net, "segment") = {}
  /\ LiveRequests(net, "key") = {}
  /\ hls.segmentXhr_ = 0
  /\ hls.keyXhr_ = 0
  /\ net.timers = {}
  /\ hls.checkBufferTimeout_ = 0
  /\ IsNull(hls.pendingSegment_)

\* C24: once dispose() has run, no chunk fetch, no key fetch and no
\* buffer-check timer is outstanding and no chunk is pending, and no later
\* callback starts one again.
DisposedStaysQuiet == hls.disposed => NothingOutstanding


-----------------------------------------------------------------------------
(* Properties of the updateend handler *)

\* A chunk is pending and drainBuffer has not taken the snapshot of the
\* buffered ranges for it.
PendingWithoutSnapshot ==
  /\ ~IsNull(hls.pendingSegment_)
  /\ IsNull(hls.pendingSegment_[1].buffered)

\* C25: an updateend that arrives while the pending chunk has no snapshot of
\* the buffered ranges, such as the one that follows the removal of old
\* buffer, leaves the pending chunk, the chunk metadata and the media source
\* as they are and requests nothing; and an updateend that clears the pending
\* chunk finds it with the snapshot taken and its append under way.
UpdateEndWithoutSnapshotIgnored ==
  /\ [][PendingWithoutSnapshot /\ UpdateEnd
          => /\ hls' = hls
             /\ master' = master
             /\ playlists' = playlists
             /\ mediaSource' = mediaSource
             /\ net' = net
             /\ ~Observed]_vars
  /\ [][~IsNull(hls.pendingSegment_) /\ IsNull(hls'.pendingSegment_)
        /\ UpdateEnd
          => /\ ~IsNull(hls.pendingSegment_[1].buffered)
             /\ sourceBuffer[1].op.kind = "append"]_vars

\* C25, witnessed: the removal of old buffer has completed while a fetched
\* chunk was waiting for the source buffer; the chunk is still pending, with
\* its bytes and without snapshot, and the source buffer is idle.
RemovalEchoIgnored ==
  /\ PendingWithoutSnapshot
  /\ hls.pendingSegment_[1].bytes
  /\ ~IsNull(sourceBuffer)
  /\ ~sourceBuffer[1].updating
  /\ tech.buffered # {}
  /\ \A r \in tech.buffered : r[1] > 0


\* The updateend step observes the append of the pending chunk.
ObservesAppend ==
  /\ ~IsNull(hls.pendingSegment_)
  /\ ~IsNull(hls.pendingSegment_[1].buffered)
  /\ UpdateEnd

\* The end-of-stream condition for the chunk whose append is observed: its
\* rendition is complete, the media source is open, and the chunk is the last
\* of the list or the buffered range around the playback position, with the
\* chunk appended, reaches the end recorded for the last chunk.
StreamEndsWithAppend ==
  LET segmentInfo == hls.pendingSegment_[1]
      rendition == master[segmentInfo.playlist]
      last == rendition.segments[Len(rendition.segments)]
      around == findBufferedRange_([St EXCEPT !.tech.buffered = tech'.buffered],
                                   tech.currentTime)
  IN /\ rendition.endList
     /\ mediaSource.readyState = "open"
     /\ \/ segmentInfo.mediaIndex = Len(rendition.segments) - 1
        \/ /\ around # {}
           /\ last.end # 0
           /\ last.end <= End0(around)

OtherChunksKeepTimes(p, i) ==
  \A q \in 1..Len(master) :
    \A j \in 1..Len(master[q].segments) :
      (q # p \/ j # i)
        => /\ master'[q].segments[j].end = master[q].segments[j].end
           /\ master'[q].segments[j].duration = master[q].segments[j].duration

\* C27: the updateend step that observes an append for the active rendition
\* records the sole new end-point as the end of the appended chunk; the
\* chunk's duration becomes that end for chunk 0, the end minus the end of the
\* chunk before it when that end is known, and stays as it was otherwise;
\* when there is no sole new end-point the step changes no end and no
\* duration.  No other chunk's end or duration changes.
AppendRecordsEndAndDuration ==
  [][Reconciles
     => LET p == Media(St)
            i == hls.pendingSegment_[1].mediaIndex + 1
            chunk == master[p].segments[i]
            timelineUpdate ==
              findSoleUncommonTimeRangesEnd_(hls.pendingSegment_[1].buffered[1],
                                             tech'.buffered)
        IN /\ timelineUpdate # 0
              => /\ master'[p].segments[i].end = timelineUpdate
                 /\ master'[p].segments[i].duration =
                      IF i = 1 THEN timelineUpdate
                      ELSE IF master[p].segments[i - 1].end # 0
                      THEN timelineUpdate - master[p].segments[i - 1].end
                      ELSE chunk.duration
                 /\ OtherChunksKeepTimes(p, i)
           /\ timelineUpdate = 0 => OtherChunksKeepTimes(0, 0)]_vars

\* C27, witnessed: the end of the second chunk was recorded while the end of
\* the first chunk is not known; its duration is still the playlist's.
EndRecordedWithoutPredecessor ==
  /\ IsNull(hls.pendingSegment_)
  /\ master[1].segments[1].end = 0
  /\ master[1].segments[2].end # 0
  /\ master[1].segments[2].duration = LongDur


\* The world in which the updateend handler of this step calls fillBuffer:
\* the append is done, no chunk is pending, and the chunk times, the duration
\* and the playback position are as the step leaves them.
BeforeRefill ==
  [St EXCEPT !.master = master',
             !.tech = tech',
             !.mediaSource = mediaSource',
             !.sourceBuffer[1].updating = FALSE,
             !.sourceBuffer[1].op = [kind |-> "none", start |-> 0, end |-> 0],
             !.hls.pendingSegment_ = Null,
             !.log.calls = <<>>]

\* The step leaves the handler, the requests and the source buffer as the
\* world w has them.
RefilledAs(w) ==
  /\ hls' = w.hls
  /\ net' = w.net
  /\ sourceBuffer' = w.sourceBuffer

\* C28: the updateend step that observes an append for the active rendition
\* and does not end the stream calls fillBuffer() without a target when a sole
\* new end-point was found or the number of buffered ranges changed, and
\* fillBuffer(index of the appended chunk + 1) otherwise; in the latter case
\* it does not fetch the appended chunk again.
RefillTargetsNextChunk ==
  [][Reconciles /\ ~StreamEndsWithAppend
     => LET segmentInfo == hls.pendingSegment_[1]
            timelineUpdate ==
              findSoleUncommonTimeRangesEnd_(segmentInfo.buffered[1],
                                             tech'.buffered)
        IN IF \/ timelineUpdate # 0
              \/ Cardinality(segmentInfo.buffered[1])
                   # Cardinality(tech'.buffered)
           THEN RefilledAs(fillBuffer(BeforeRefill, NoArg))
           ELSE /\ RefilledAs(fillBuffer(BeforeRefill,
                                         segmentInfo.mediaIndex + 1))
                /\ \A r \in LiveRequests(net', "segment") :
                     r.info[1].mediaIndex # segmentInfo.mediaIndex]_vars

\* C28, witnessed: a chunk was appended again inside the buffered ranges, and
\* the chunk after it is being fetched although the playback position lies
\* before it and the buffered range around the position extends over it.
NextChunkFetchedExplicitly ==
  /\ Called(log, "xhrSegment")
  /\ ~IsNull(hls.lastSegmentLoaded_)
  /\ \E r \in LiveRequests(net, "segment") :
       /\ r.info[1].mediaIndex = hls.lastSegmentLoaded_[1].mediaIndex + 1
       /\ tech.currentTime < r.info[1].mediaIndex * LongDur
       /\ \E b \in tech.buffered :
            b[1] <= tech.currentTime
              /\ (r.info[1].mediaIndex + 1) * LongDur <= b[2]


\* The updateend step observes the append of a chunk of a rendition that is
\* not the active one any more.
ObservesAppendOfOtherRendition ==
  /\ ~IsNull(hls.pendingSegment_)
  /\ ~IsNull(hls.pendingSegment_[1].buffered)
  /\ hls.pendingSegment_[1].playlist # Media(St)
  /\ UpdateEnd

\* C29: the updateend step that observes the append of a chunk of a rendition
\* that is no longer the active one changes no chunk's end or duration in any
\* rendition and clears the pending chunk; it calls endOfStream() when the
\* end-of-stream condition holds, and fillBuffer() without a target otherwise.
SwitchedAppendLeavesTimes ==
  [][ObservesAppendOfOtherRendition
     => /\ OtherChunksKeepTimes(0, 0)
        /\ IsNull(hls'.pendingSegment_)
        /\ IF StreamEndsWithAppend
           THEN /\ Observed
                /\ Called(log', "endOfStream")
                /\ net'.requests = net.requests
           ELSE RefilledAs(fillBuffer(BeforeRefill, NoArg))]_vars

\* C29, witnessed: a chunk of a rendition that is not active any more was
\* appended; no end is recorded in any rendition, no chunk is pending, and
\* the next chunk is being fetched from the active rendition.
AppendedAfterSwitch ==
  /\ ~IsNull(hls.lastSegmentLoaded_)
  /\ hls.lastSegmentLoaded_[1].playlist # playlists.media_
  /\ tech.buffered # {}
  /\ IsNull(hls.pendingSegment_)
  /\ \A p \in 1..Len(master) :
       \A i \in 1..Len(master[p].segments) : master[p].segments[i].end = 0
  /\ \E r \in LiveRequests(net, "segment") :
       r.info[1].playlist = playlists.media_


-----------------------------------------------------------------------------
(* Properties of the timestamp offset *)

\* The step requests a chunk while the player is seeking to a position
\* outside all buffered ranges and the active rendition has discontinuities.
RequestsWhileSeekingOutside ==
  /\ Observed
  /\ Called(log', "xhrSegment")
  /\ tech'.seeking
  /\ findBufferedRange_([St EXCEPT !.tech = tech'], tech'.currentTime) = {}
  /\ playlists'.media_ # 0
  /\ \E i \in 1..Len(master[playlists'.media_].segments) :
       master[playlists'.media_].segments[i].discontinuity

\* C30: a chunk that is requested while the player is seeking to a position
\* outside all buffered ranges, in a rendition with discontinuities, is given
\* the timestamp offset of its place on the timeline, the duration of the
\* chunks before it plus the expired time, whatever its index, index 0
\* included; and that offset is the source buffer's when the chunk is
\* appended.
SeekOffsetIsTimelinePosition ==
  /\ [][RequestsWhileSeekingOutside
          => \A r \in LiveRequests(net', "segment") \ net.requests :
               r.info[1].timestampOffset
                 = DurationBefore(master'[r.info[1].playlist],
                                  r.info[1].mediaIndex)
                     + playlists'.expired_]_vars
  /\ [][(/\ Observed
         /\ Called(log', "appendBuffer")
         /\ ~IsNull(hls'.pendingSegment_)
         /\ hls'.pendingSegment_[1].timestampOffset # TsNull)
          => sourceBuffer'[1].timestampOffset
               = hls'.pendingSegment_[1].timestampOffset]_vars


\* The timeline position of the chunk with media index i of playlist p: the
\* duration of the chunks before it plus the expired time.
TimelinePosition(p, i) ==
  DurationBefore(master'[p], i) + playlists'.expired_

\* The offset the ordered rules give to a chunk that this step requests.
OffsetByRules(info) ==
  LET world == [St EXCEPT !.tech = tech']
      currentBuffered == findBufferedRange_(world, tech'.currentTime)
      rendition == master'[info.playlist]
      position == TimelinePosition(info.playlist, info.mediaIndex)
  IN IF /\ tech'.seeking
        /\ currentBuffered = {}
        /\ \E i \in 1..Len(rendition.segments) :
             rendition.segments[i].discontinuity
     THEN position
     ELSE IF /\ rendition.segments[info.mediaIndex + 1].discontinuity
             /\ currentBuffered # {}
     THEN End0(currentBuffered)
     ELSE IF tech'.buffered = {} /\ tech'.currentTime > 0
     THEN position
     ELSE TsNull

\* C31: the offset rules are tried in order and the first whose condition
\* holds decides: seeking outside the buffered ranges in a rendition with
\* discontinuities gives the chunk's timeline position; a discontinuity chunk
\* with a buffered range around the playback position gives that range's end;
\* nothing buffered and a playback position above zero gives the chunk's
\* timeline position (also when seeking outside the buffered ranges in a
\* rendition without discontinuities); otherwise the offset stays unset and
\* the append leaves the source buffer's offset alone.
OffsetRulesInOrder ==
  /\ [][(Observed /\ Called(log', "xhrSegment"))
          => \A r \in LiveRequests(net', "segment") \ net.requests :
               r.info[1].timestampOffset = OffsetByRules(r.info[1])]_vars
  /\ [][(/\ Observed
         /\ Called(log', "appendBuffer")
         /\ ~IsNull(sourceBuffer)
         /\ ~IsNull(hls'.pendingSegment_)
         /\ hls'.pendingSegment_[1].timestampOffset = TsNull)
          => sourceBuffer'[1].timestampOffset
               = sourceBuffer[1].timestampOffset]_vars


-----------------------------------------------------------------------------
(* Properties of the goal buffer length *)

\* The buffered range around the playback position of the world w extends at
\* least 30 s beyond the playback position.
PlentyBuffered(w) ==
  LET around == findBufferedRange_(w, w.tech.currentTime)
  IN around # {} /\ End0(around) - w.tech.currentTime >= 30

\* The chunk requests this step issues.
FetchesIssued == LiveRequests(net', "segment") \ net.requests

\* The updateend step observes an append that lies fully inside the buffered
\* time and goes on with fillBuffer(index of the appended chunk + 1).
RefillsWithTarget ==
  /\ Reconciles
  /\ ~StreamEndsWithAppend
  /\ findSoleUncommonTimeRangesEnd_(hls.pendingSegment_[1].buffered[1],
                                    tech'.buffered) = 0
  /\ Cardinality(hls.pendingSegment_[1].buffered[1])
       = Cardinality(tech'.buffered)

\* C32: a fill without a target index issues no fetch when the buffered range
\* around the playback position extends at least 30 s beyond it: fillBuffer()
\* fetches nothing in such a state, and a step that issues a fetch while that
\* much is buffered is one that fills with a target index; the fill with the
\* target index is not held back by the goal buffer length, it fetches the
\* chunk after the appended one whenever there is one.
GoalLimitsOnlyUntargetedFill ==
  /\ [](PlentyBuffered(St) => FilledOnce.net = net)
  /\ [][(FetchesIssued # {} /\ PlentyBuffered([St EXCEPT !.tech = tech']))
          => RefillsWithTarget]_vars
  /\ [][(/\ RefillsWithTarget
         /\ PlentyBuffered([St EXCEPT !.tech = tech'])
         /\ hls.loadingState_ = "segments"
         /\ playlists.state = "HAVE_METADATA"
         /\ hls.pendingSegment_[1].mediaIndex + 1
              < Len(master[Media(St)].segments))
          => \E r \in FetchesIssued :
               r.info[1].mediaIndex = hls.pendingSegment_[1].mediaIndex + 1]_vars

\* C32, witnessed: the chunk after the appended one is being fetched, by a
\* fill with a target index (the chunk lies inside the buffered range around
\* the playback position, where a fill without a target never looks), while
\* 30 s or more are buffered beyond the playback position.
FetchedBeyondGoal ==
  /\ Called(log, "xhrSegment")
  /\ PlentyBuffered(St)
  /\ IsNull(hls.pendingSegment_)
  /\ ~IsNull(hls.lastSegmentLoaded_)
  /\ \E r \in LiveRequests(net, "segment") :
       /\ r.id = hls.segmentXhr_
       /\ r.info[1].mediaIndex = hls.lastSegmentLoaded_[1].mediaIndex + 1
       /\ \E b \in findBufferedRange_(St, tech.currentTime) :
            /\ b[1] <= r.info[1].mediaIndex * LongDur
            /\ (r.info[1].mediaIndex + 1) * LongDur <= b[2]


-----------------------------------------------------------------------------
(* The walk past the last loaded chunk: one complete rendition whose chunks  *)
(* may share a URI, with or without byteranges, and a viewer who seeks.      *)

\* URIs the chunks of such a rendition are drawn from
WalkUris == {11, 12}

\* The rendition whose chunk i has the URI uris[i] and, where ranged[i], a
\* byterange object of its own.
WalkVariant(uris, ranged) ==
  [Variant(500, 0, 0, Undefined, TRUE, FALSE, MaxSegs, 10) EXCEPT
     !.segments = [i \in 1..MaxSegs |->
                     [@[i] EXCEPT !.uri = uris[i],
                                  !.byterange = IF ranged[i] THEN i
                                                ELSE Undefined]]]

WalkMasters ==
  {<<WalkVariant(uris, ranged)>> :
     uris \in [1..MaxSegs -> WalkUris], ranged \in [1..MaxSegs -> BOOLEAN]}

WalkInit ==
  InitWith(WalkMasters, Preloads, FALSE,
           [failures |-> 0, keyFailures |-> 0, seeks |-> MaxSeeks])

WalkNext ==
  \/ Src
  \/ MasterLoaded
  \/ PlaylistLoaded
  \/ SourceOpen
  \/ Play
  \/ Tick
  \/ SegmentResponse
  \/ UpdateEnd
  \/ Seek
  \/ Seeking
  \/ Seeked
  \/ Playback

WalkSpec == WalkInit /\ [][WalkNext]_vars

\* fillBuffer gets as far as choosing a chunk in the world w.
Fillable(w) ==
  /\ w.hls.loadingState_ = "segments"
  /\ w.tech.currentSrc
  /\ w.hls.segmentXhr_ = 0
  /\ IsNull(w.hls.pendingSegment_)
  /\ w.playlists.state = "HAVE_METADATA"
  /\ Media(w) # 0

\* The chunk with media index j of the active rendition has the URI and the
\* byterange of the chunk that was loaded last.
EqualsLastLoaded(w, j) ==
  /\ ~IsNull(w.hls.lastSegmentLoaded_)
  /\ w.master[Media(w)].segments[j + 1].uri = w.hls.lastSegmentLoaded_[1].uri
  /\ w.master[Media(w)].segments[j + 1].byterange
       = w.hls.lastSegmentLoaded_[1].byterange

\* The first media index from i on whose chunk differs from the last loaded
\* one; the length of the chunk list when there is none.
FirstDiffering(w, i) ==
  LET n == Len(w.master[Media(w)].segments)
  IN Min({j \in i..Max({i, n}) : j >= n \/ ~EqualsLastLoaded(w, j)})

\* C33: fillBuffer issues no fetch for a chunk whose URI and byterange are
\* those of the chunk loaded last: from the index it starts at it moves to the
\* first later index whose chunk differs and fetches that one, and fetches
\* nothing when it runs past the end of the chunk list (the walk ends for
\* every start index); a seek that cancels resets the last loaded chunk, so
\* that the chunk at the seek target is fetched even if it was the one loaded
\* last.
WalksPastLastLoaded ==
  /\ [](Fillable(St) =>
          \A i \in 0..MaxSegs :
            LET j == FirstDiffering(St, i)
                after == fillBuffer(Begin("fillBuffer"), i)
                issued == LiveRequests(after.net, "segment") \ net.requests
            IN IF j < Len(master[Media(St)].segments)
               THEN /\ Cardinality(issued) = 1
                    /\ \A r \in issued : r.info[1].mediaIndex = j
               ELSE after.net = net)
  /\ [][\A r \in FetchesIssued :
          \/ IsNull(hls'.lastSegmentLoaded_)
          \/ r.info[1].uri # hls'.lastSegmentLoaded_[1].uri
          \/ master'[r.info[1].playlist].segments[r.info[1].mediaIndex + 1].byterange
               # hls'.lastSegmentLoaded_[1].byterange]_vars
  /\ [][(/\ Seeking
         /\ Media(St) # 0
         /\ findBufferedRange_(St, tech.currentTime) = {}
         /\ ~(/\ ~IsNull(hls.pendingSegment_)
              /\ ~IsNull(hls.pendingSegment_[1].buffered)))
          => /\ IsNull(hls'.lastSegmentLoaded_)
             /\ (/\ hls.loadingState_ = "segments"
                 /\ playlists.state = "HAVE_METADATA")
                  => \E r \in FetchesIssued :
                       r.info[1].mediaIndex
                         = getMediaIndexForTime_(St, tech.currentTime)]_vars

\* C33, witnessed: the chunk after the last loaded one equals it, and the
\* chunk after that one is being fetched.
WalkedPastEqualChunk ==
  /\ hls.segmentXhr_ # 0
  /\ ~IsNull(hls.lastSegmentLoaded_)
  /\ Media(St) # 0
  /\ hls.lastSegmentLoaded_[1].mediaIndex + 2 < Len(master[Media(St)].segments)
  /\ EqualsLastLoaded(St, hls.lastSegmentLoaded_[1].mediaIndex + 1)
  /\ \E r \in LiveRequests(net, "segment") :
       /\ r.id = hls.segmentXhr_
       /\ r.info[1].mediaIndex = hls.lastSegmentLoaded_[1].mediaIndex + 2


-----------------------------------------------------------------------------
(* Selection by resolution: masters of three variants of 500, 2000 and 8000  *)
(* whose resolutions are drawn freely, players of several sizes.             *)

\* RESOLUTION attributes of the variants; <<0, 0>> stands for none
Resolutions == {<<0, 0>>, <<320, 180>>, <<640, 360>>, <<1280, 720>>}

ResolutionMasters ==
  {<<Variant(500, a[1], a[2], Undefined, TRUE, FALSE, 1, 10),
     Variant(2000, b[1], b[2], Undefined, TRUE, FALSE, 1, 20),
     Variant(8000, c[1], c[2], Undefined, TRUE, FALSE, 1, 30)>> :
     a \in Resolutions, b \in Resolutions, c \in Resolutions}

\* the computed width and height of the player's element
ResolutionPlayerSizes ==
  {<<300, 150>>, <<320, 200>>, <<640, 360>>, <<700, 400>>, <<1920, 1080>>}

\* options.bandwidth
ResolutionEstimates == {3000, DefaultBandwidth}

ResolutionInit ==
  \E m \in ResolutionMasters, size \in ResolutionPlayerSizes,
     estimate \in ResolutionEstimates :
    LET w == Constructed(m, "none", FALSE)
    IN /\ master = w.master
       /\ playlists = w.playlists
       /\ tech = [w.tech EXCEPT !.width = size[1], !.height = size[2]]
       /\ mediaSource = w.mediaSource
       /\ sourceBuffer = w.sourceBuffer
       /\ hls = [w.hls EXCEPT !.bandwidth = estimate]
       /\ net = w.net
       /\ now = w.now
       /\ log = [w.log EXCEPT !.budget.failures = 2]

ResolutionNext ==
  \/ Src
  \/ MasterLoaded
  \/ PlaylistLoaded
  \/ PlaylistError
  \/ ClockTick

ResolutionSpec == ResolutionInit /\ [][ResolutionNext]_vars

\* The variants that are not excluded, are below the bandwidth estimate and
\* carry a width and a height.
EligibleWithResolution ==
  {p \in 1..Len(master) :
     /\ master[p].excludeUntil # Undefined => now >= master[p].excludeUntil
     /\ master[p].BANDWIDTH # 0
     /\ master[p].BANDWIDTH * 12 < hls.bandwidth * 10
     /\ master[p].RESOLUTION.width # 0
     /\ master[p].RESOLUTION.height # 0}

ExactFit ==
  {p \in EligibleWithResolution :
     /\ master[p].RESOLUTION.width = tech.width
     /\ master[p].RESOLUTION.height = tech.height}

LargerThanPlayer ==
  {p \in EligibleWithResolution :
     /\ master[p].RESOLUTION.width > tech.width
     /\ master[p].RESOLUTION.height > tech.height}

AtMostPlayer ==
  {p \in EligibleWithResolution :
     /\ master[p].RESOLUTION.width <= tech.width
     /\ master[p].RESOLUTION.height <= tech.height}

\* C34: once the master playlist is loaded, among the variants that are
\* eligible by bandwidth and carry a resolution, selectPlaylist returns one whose width and height equal the
\* player's when there is one; otherwise the smallest of those whose width
\* and height both exceed the player's; otherwise the largest of those whose
\* width and height are at most the player's.
SelectsByResolution ==
  LET chosen == selectPlaylist(St)
  IN IF playlists.state \in {"NONE", "HAVE_NOTHING"} THEN TRUE
     ELSE IF ExactFit # {} THEN chosen \in ExactFit
     ELSE IF LargerThanPlayer # {}
     THEN /\ chosen \in LargerThanPlayer
          /\ \A p \in LargerThanPlayer :
               master[chosen].RESOLUTION.width <= master[p].RESOLUTION.width
     ELSE IF AtMostPlayer # {}
     THEN /\ chosen \in AtMostPlayer
          /\ \A p \in AtMostPlayer :
               master[chosen].RESOLUTION.width >= master[p].RESOLUTION.width
     ELSE TRUE


-----------------------------------------------------------------------------
(* Eviction: the rendition of long chunks, complete, or live with 45 s that  *)
(* have left the window                                                      *)

\* the loader's expired time of the live rendition, in seconds
ExpiredTime == LongDur + 5

EvictInit ==
  \E live \in BOOLEAN :
    LET w == Constructed(<<[LongVariant EXCEPT !.endList = ~live]>>,
                         "auto", FALSE)
    IN /\ master = w.master
       /\ playlists = [w.playlists EXCEPT
                         !.expired_ = IF live THEN ExpiredTime ELSE 0]
       /\ tech = w.tech
       /\ mediaSource = w.mediaSource
       /\ sourceBuffer = w.sourceBuffer
       /\ hls = w.hls
       /\ net = w.net
       /\ now = w.now
       /\ log = [w.log EXCEPT !.budget = [failures |-> 0, keyFailures |-> 0,
                                          seeks |-> MaxJumps]]

EvictNext ==
  \/ Src
  \/ MasterLoaded
  \/ PlaylistLoaded
  \/ SourceOpen
  \/ Play
  \/ Tick
  \/ SegmentResponse
  \/ UpdateEnd
  \/ Jump
  \/ Seeking
  \/ Seeked
  \/ Playback

EvictSpec == EvictInit /\ [][EvictNext]_vars

\* The end of the range [0, r) that a fetch of this step may evict: the start
\* of the seekable range if it lies after 0 and before the playback position,
\* and the playback position less 60 s otherwise.
EvictionEnd ==
  LET window == seekable([St EXCEPT !.playlists = playlists',
                                    !.master = master'])
  IN IF ~IsNull(window) /\ 0 < window[1] /\ window[1] < tech'.currentTime
     THEN window[1]
     ELSE tech'.currentTime - 60

\* A source buffer exists and is not updating when this step fetches.
SinkIdleAtFetch ==
  /\ ~IsNull(sourceBuffer')
  /\ \/ IsNull(sourceBuffer)
     \/ ~sourceBuffer[1].updating
     \/ UpdateEnd

\* C35: a step that fetches a chunk while a source buffer exists and is not
\* updating evicts [0, r), r being the seekable start if that lies after 0 and
\* before the playback position and the playback position less 60 s
\* otherwise, and evicts nothing when r <= 0; nothing is evicted while the
\* source buffer is updating, nothing is evicted by a step that fetches no
\* chunk, and no eviction reaches the playback position.
EvictsBehindPlayhead ==
  /\ [][FetchesIssued # {}
          => IF SinkIdleAtFetch /\ EvictionEnd > 0
             THEN /\ \E k \in 1..Len(log'.calls) :
                       log'.calls[k] = [op |-> "remove", arg |-> EvictionEnd]
                  /\ sourceBuffer'[1].updating
                  /\ sourceBuffer'[1].op
                       = [kind |-> "remove", start |-> 0, end |-> EvictionEnd]
             ELSE /\ ~Called(log', "remove")
                  /\ sourceBuffer' = sourceBuffer \/ UpdateEnd
                       \/ IsNull(sourceBuffer)]_vars
  /\ [][(Observed /\ Called(log', "remove"))
          => /\ FetchesIssued # {}
             /\ \A k \in 1..Len(log'.calls) :
                  log'.calls[k].op = "remove"
                    => log'.calls[k].arg < tech'.currentTime]_vars

\* C35, witnessed: a chunk is being fetched, and with the fetch the range up
\* to the seekable start is being evicted, or the range up to 60 s behind the
\* playback position.
EvictedToSeekableStart ==
  /\ Called(log, "remove") /\ Called(log, "xhrSegment")
  /\ ~IsNull(sourceBuffer)
  /\ sourceBuffer[1].updating
  /\ sourceBuffer[1].op.kind = "remove"
  /\ sourceBuffer[1].op.end = ExpiredTime
  /\ playlists.expired_ = ExpiredTime
  /\ ExpiredTime < tech.currentTime


-----------------------------------------------------------------------------
(* Properties of the append *)

\* The step calls appendBuffer.
Appends == Observed /\ Called(log', "appendBuffer")

\* The buffered snapshot of the pending chunk is set: its bytes were handed
\* to the source buffer.
SnapshotTaken ==
  /\ ~IsNull(hls.pendingSegment_)
  /\ ~IsNull(hls.pendingSegment_[1].buffered)

\* C36: appendBuffer is called only when a source buffer exists and is not
\* updating and the plaintext bytes of the pending chunk are there, and at
\* most once for a fetched chunk: the call sets the chunk's buffered
\* snapshot, which was not set before, and once it is set no step appends
\* again or changes the timestamp offset; the timestamp offset is set only
\* together with an append.
AppendsOncePerChunk ==
  /\ [][Appends
          => /\ ~IsNull(sourceBuffer')
             /\ IsNull(sourceBuffer) \/ ~sourceBuffer[1].updating \/ UpdateEnd
             /\ ~IsNull(hls'.pendingSegment_)
             /\ hls'.pendingSegment_[1].bytes
             /\ ~IsNull(hls'.pendingSegment_[1].buffered)
             /\ ~SnapshotTaken
             /\ Cardinality({k \in 1..Len(log'.calls) :
                               log'.calls[k].op = "appendBuffer"}) = 1
             /\ sourceBuffer'[1].updating
             /\ sourceBuffer'[1].op.kind = "append"]_vars
  /\ [][SnapshotTaken
          => /\ ~Appends
             /\ ~(Observed /\ Called(log', "timestampOffset"))
             /\ ~IsNull(sourceBuffer)
             /\ ~IsNull(sourceBuffer')
             /\ sourceBuffer'[1].timestampOffset
                  = sourceBuffer[1].timestampOffset]_vars
  /\ [][(Observed /\ Called(log', "timestampOffset")) => Appends]_vars

\* C36, witnessed: the decrypted bytes of the pending chunk were handed to
\* the source buffer, which is updating with them.
DecryptedChunkAppended ==
  /\ Called(log, "appendBuffer")
  /\ SnapshotTaken
  /\ hls.pendingSegment_[1].bytes
  /\ hls.pendingSegment_[1].decrypter
  /\ ~IsNull(sourceBuffer)
  /\ sourceBuffer[1].updating
  /\ sourceBuffer[1].op.kind = "append"


-----------------------------------------------------------------------------
(* Keys of two encrypted renditions: a chunk fetch may fail once, so that    *)
(* the engine changes the rendition while a key is on its way.  The loader,  *)
(* the network, the decrypter, the media source and the timer do what they   *)
(* are asked to, hence the fairness.                                         *)

KeyWaitInit ==
  InitWith({MasterOf(<<TRUE, TRUE>>)}, Preloads, TRUE,
           [failures |-> 1, keyFailures |-> 0, seeks |-> 0])

KeyWaitNext ==
  \/ Src
  \/ MasterLoaded
  \/ PlaylistLoaded
  \/ SourceOpen
  \/ Tick
  \/ SegmentResponse
  \/ KeyResponse
  \/ DecryptDone
  \/ UpdateEnd

KeyWaitFairness ==
  /\ WF_vars(Src)
  /\ WF_vars(MasterLoaded)
  /\ WF_vars(PlaylistLoaded)
  /\ WF_vars(SourceOpen)
  /\ WF_vars(Tick)
  /\ WF_vars(SegmentResponse)
  /\ WF_vars(KeyResponse)
  /\ WF_vars(DecryptDone)
  /\ WF_vars(UpdateEnd)

KeyWaitSpec == KeyWaitInit /\ [][KeyWaitNext]_vars /\ KeyWaitFairness

\* A chunk of the encrypted variant p is requested or fetched and waits for
\* the key of p, which is neither downloaded nor failed for good.
AwaitsKey(p) ==
  /\ ~master[p].key.bytes
  /\ master[p].key.retries < 2
  /\ \/ \E r \in LiveRequests(net, "segment") :
          /\ r.id = hls.segmentXhr_
          /\ r.info[1].playlist = p
          /\ master[p].segments[r.info[1].mediaIndex + 1].key
     \/ /\ ~IsNull(hls.pendingSegment_)
        /\ hls.pendingSegment_[1].playlist = p
        /\ master[p].segments[hls.pendingSegment_[1].mediaIndex + 1].key
        /\ IsNull(hls.pendingSegment_[1].buffered)

\* A fetch of the key of variant p is outstanding.
KeyOnItsWay(p) == \E r \in LiveRequests(net, "key") : r.key = p

\* No chunk of variant p is requested or waits for its append any more: the
\* chunk was appended, or given up with the variant excluded.
ChunkOfSettled(p) ==
  /\ \A r \in LiveRequests(net, "segment") :
       r.id = hls.segmentXhr_ => r.info[1].playlist # p
  /\ \/ IsNull(hls.pendingSegment_)
     \/ hls.pendingSegment_[1].playlist # p
     \/ ~IsNull(hls.pendingSegment_[1].buffered)

\* C37: whenever a chunk of an encrypted rendition is requested or fetched
\* and its key is neither downloaded nor failed for good, a fetch of that key
\* is outstanding or is issued later (or the key is no longer waited for),
\* and the chunk is eventually appended or given up: the engine never waits
\* for ever for a key that nobody fetches.
AwaitedKeyIsFetched ==
  \A p \in 1..2 :
    /\ AwaitsKey(p) ~> (KeyOnItsWay(p) \/ ~AwaitsKey(p))
    /\ AwaitsKey(p) ~> ChunkOfSettled(p)


-----------------------------------------------------------------------------
(* Properties of the buffer-check timer *)

\* The periodic buffer check is stopped: the constructor arms the timer and
\* every buffer check arms it anew, so that no timer is scheduled only after
\* stopCheckingBuffer_().
CheckStopped == net.timers = {} /\ hls.checkBufferTimeout_ = 0

\* C38: at most one buffer-check timer is scheduled at any time; the `error`
\* of the tech stops the periodic check; and once it is stopped no later
\* event arms the timer again, a key response that arrives afterwards
\* included.
StoppedCheckStaysStopped ==
  /\ [](Cardinality(net.timers) <= 1)
  /\ [][TechError => CheckStopped']_vars
  /\ [][CheckStopped => CheckStopped']_vars


-----------------------------------------------------------------------------
(* Properties of a seek that changes nothing *)

\* C39: setCurrentTime leaves the outstanding chunk request, the outstanding
\* key request, the pending chunk and the last loaded chunk as they are, and
\* issues no request, when the playback position lies inside a buffered
\* range, when the pending chunk was already handed to the source buffer, or
\* when no active rendition is known.
IdleSeekChangesNothing ==
  [][(/\ Seeking
      /\ \/ findBufferedRange_(St, tech.currentTime) # {}
         \/ /\ ~IsNull(hls.pendingSegment_)
            /\ ~IsNull(hls.pendingSegment_[1].buffered)
         \/ playlists.media_ = 0)
       => /\ hls'.segmentXhr_ = hls.segmentXhr_
          /\ hls'.keyXhr_ = hls.keyXhr_
          /\ hls'.pendingSegment_ = hls.pendingSegment_
          /\ hls'.lastSegmentLoaded_ = hls.lastSegmentLoaded_
          /\ net'.requests = net.requests
          /\ ~Observed]_vars

\* C39, witnessed: the `seeking` of a seek to an unbuffered position was
\* handled while another chunk than the one at that position was being
\* appended; the append is still under way and the key request is still
\* outstanding or the last loaded chunk still known.
SeekHandledDuringAppend ==
  /\ tech.seeking /\ ~tech.seekingEvent
  /\ playlists.media_ # 0
  /\ findBufferedRange_(St, tech.currentTime) = {}
  /\ ~IsNull(hls.pendingSegment_)
  /\ ~IsNull(hls.pendingSegment_[1].buffered)
  /\ hls.pendingSegment_[1].mediaIndex
       # getMediaIndexForTime_(St, tech.currentTime)
  /\ ~IsNull(hls.lastSegmentLoaded_)
  /\ ~IsNull(sourceBuffer)
  /\ sourceBuffer[1].updating

====
